---- MODULE Spec2Model ----
(***************************************************************************)
(* Ad-break scheduling and timeline reconciliation of ad-demo-ui.          *)
(*                                                                         *)
(* Two programs are modelled:                                              *)
(*   - the stream-relative reconciler of src/app.js (class AdBreakManager  *)
(*     with AdTracker, AdOverlayController, VMAPService and AdDemoApp):    *)
(*     specification Spec, and SpecBurst for schedules of three breaks at  *)
(*     the start of the content;                                           *)
(*   - the content-relative client-swap player of src/unnamed/part_000     *)
(*     (handleContentTimeUpdate, triggerAdBreak, cleanupAdAndResume, ...): *)
(*     specification SpecCS.                                               *)
(*                                                                         *)
(* Times are integers counting tenths of a second, so that 329.9 s is 3299 *)
(* and the 0.5 s trigger tolerance is 5.  The JavaScript values null and   *)
(* undefined are the empty string for strings and the empty sequence for   *)
(* optional values; references to descriptor objects are records (NullRef, *)
(* ListRef, OldRef, GoneRef).  A handler is an operator from the state     *)
(* record to the state record; the calls it makes on the overlay, the      *)
(* tracker, the player and the window are counted in the field fx of its   *)
(* result.                                                                 *)
(***************************************************************************)
EXTENDS Integers, Sequences, FiniteSets, TLC

\* ---------------------------------------------------------------------------
\* Bounds of the model
\* ---------------------------------------------------------------------------

\* longest schedule document handed to buildAdBreakList
MaxBreaks == 2

\* most registrations of handleContentTimeUpdate on one player
MaxListeners == 2

\* most one-shot error callbacks of seekContentPastAd waiting on one player
MaxErrorHandlers == 2

\* most one-shot loadedmetadata callbacks of seekContentPastAd waiting on one
\* player
MaxResumes == 2

\* most promises of player.play() made by seekContentPastAd and not yet settled
MaxPlays == 2

\* most metadata resolutions (startAdBreak awaiting tracker.initialize) in flight
MaxPending == 2

\* most loads (loadVideo, loadVideoAndVMAP) whose schedule fetch is still in
\* flight
MaxLoads == 2

\* entries of a schedule document the builder is tried on
MaxEntries == 3

\* ---------------------------------------------------------------------------
\* Program constants (seconds are written in tenths)
\* ---------------------------------------------------------------------------

\* CONFIG.DEFAULT_AD_DURATION, 30 s
DEFAULT_AD_DURATION == 300

\* CONFIG.DEFAULT_SKIP_OFFSET, 5 s
DEFAULT_SKIP_OFFSET == 50

\* the content duration typed into the form (loadVideo falls back to 596 s)
ContentDuration == 5960

\* ---------------------------------------------------------------------------
\* Small helpers for JavaScript semantics
\* ---------------------------------------------------------------------------

\* a || b on numbers: 0 (and NaN, undefined) is falsy
OrNum(a, b) == IF a = 0 THEN b ELSE a

\* a || b on strings: "" (and null, undefined) is falsy
OrStr(a, b) == IF a = "" THEN b ELSE a

Min(a, b) == IF a <= b THEN a ELSE b

\* ---------------------------------------------------------------------------
\* VMAPService: the schedule builder
\* ---------------------------------------------------------------------------

\* A time offset string is modelled by what parseTimeOffset reads of it: the
\* literal text when it is "start" or "end" ("" when the attribute is absent,
\* "other" for any other text) and the parts String(timeOffset).split(':')
\* yields, each part being the number parseInt/parseFloat reads, with ok = FALSE
\* when they read NaN.
Part(n) == [ok |-> TRUE, val |-> n]

PartNaN == [ok |-> FALSE, val |-> 0]

OffStart == [lit |-> "start", parts |-> <<PartNaN>>]

OffEnd == [lit |-> "end", parts |-> <<PartNaN>>]

OffAbsent == [lit |-> "", parts |-> <<PartNaN>>]

\* "00:05:00"
OffMid == [lit |-> "other", parts |-> <<Part(0), Part(5), Part(0)>>]

\* "00:01:30"
OffEarly == [lit |-> "other", parts |-> <<Part(0), Part(1), Part(300)>>]

\* "10%", a percentage offset: one part, not H:M:S
OffPercent == [lit |-> "other", parts |-> <<Part(10)>>]

\* "xx:01:yy": three parts, two of them not numeric
OffGarbled == [lit |-> "other", parts |-> <<PartNaN, Part(1), PartNaN>>]

\* parseInt(p, 10) || 0 and parseFloat(p) || 0
NumOrZero(p) == IF p.ok THEN p.val ELSE 0

\* a parser that takes the last component for minutes
parseTimeOffset_minutesLast(timeOffset, totalDuration) ==
  IF timeOffset.lit = "start" THEN 0
  ELSE IF timeOffset.lit = "end" THEN totalDuration
  ELSE IF Len(timeOffset.parts) = 3
       THEN NumOrZero(timeOffset.parts[1]) * 36000
            + NumOrZero(timeOffset.parts[2]) * 600
            + NumOrZero(timeOffset.parts[3]) * 600
       ELSE 0

\* VMAPService.parseTimeOffset; hours and minutes are whole numbers, the seconds
\* part is in tenths, and so is the result
parseTimeOffset(timeOffset, totalDuration) ==
  IF timeOffset.lit = "start" THEN 0
  ELSE IF timeOffset.lit = "end" THEN totalDuration
  ELSE IF Len(timeOffset.parts) = 3
       THEN NumOrZero(timeOffset.parts[1]) * 36000
            + NumOrZero(timeOffset.parts[2]) * 600
            + NumOrZero(timeOffset.parts[3])
       ELSE 0

\* The adTagURI of a schedule entry: absent (""), a plain string, an object with
\* a uri field, or an object without one (which the code returns as it is).
UriAbsent == [kind |-> "absent", uri |-> ""]

UriString == [kind |-> "string", uri |-> "vast"]

UriObject == [kind |-> "object", uri |-> "vast"]

UriBareObject == [kind |-> "object", uri |-> ""]

\* VMAPService.extractVastUrl: "" stands for null
extractVastUrl(adBreak) ==
  IF adBreak.adTagURI.kind = "absent" THEN ""
  ELSE IF adBreak.adTagURI.kind = "object" /\ adBreak.adTagURI.uri # ""
       THEN adBreak.adTagURI.uri
       ELSE IF adBreak.adTagURI.kind = "object" THEN "[object]"
            ELSE adBreak.adTagURI.uri

\* stable insertion of descriptor d into a list sorted by timeInSeconds:
\* Array.prototype.sort with (a, b) => a.timeInSeconds - b.timeInSeconds
RECURSIVE InsertSorted(_, _)
InsertSorted(list, d) ==
  IF list = << >> THEN <<d>>
  ELSE IF list[Len(list)].timeInSeconds <= d.timeInSeconds
       THEN Append(list, d)
       ELSE Append(InsertSorted(SubSeq(list, 1, Len(list) - 1), d), list[Len(list)])

RECURSIVE SortByTime(_)
SortByTime(list) ==
  IF list = << >> THEN << >>
  ELSE InsertSorted(SortByTime(SubSeq(list, 1, Len(list) - 1)), list[Len(list)])

\* a descriptor that counts entries from one
Descriptor_fromOne(br, i, contentDuration) ==
  [index |-> i + 1,
   timeInSeconds |-> parseTimeOffset(IF br.timeOffset.lit = "" THEN OffStart
                                     ELSE br.timeOffset, contentDuration),
   breakId |-> OrStr(br.breakId, "break_" \o ToString(i + 1)),
   vastUrl |-> extractVastUrl(br),
   duration |-> DEFAULT_AD_DURATION,
   skipOffset |-> DEFAULT_SKIP_OFFSET,
   clickThrough |-> ""]

\* the descriptor buildAdBreakList pushes for entry i (0-based) of the document
Descriptor(br, i, contentDuration) ==
  [index |-> i,
   timeInSeconds |-> parseTimeOffset(IF br.timeOffset.lit = "" THEN OffStart
                                     ELSE br.timeOffset, contentDuration),
   breakId |-> OrStr(br.breakId, "break_" \o ToString(i)),
   vastUrl |-> extractVastUrl(br),
   duration |-> DEFAULT_AD_DURATION,
   skipOffset |-> DEFAULT_SKIP_OFFSET,
   clickThrough |-> ""]

\* the loop of buildAdBreakList over the first n entries
RECURSIVE KeptEntries(_, _, _)
KeptEntries(vmap, n, contentDuration) ==
  IF n = 0 THEN << >>
  ELSE LET rest == KeptEntries(vmap, n - 1, contentDuration)
           d == Descriptor(vmap[n], n - 1, contentDuration)
       IN IF d.vastUrl # "" THEN Append(rest, d) ELSE rest

\* a builder that leaves the kept entries in document order
buildAdBreakList_unsorted(vmap, contentDuration) ==
  KeptEntries(vmap, Len(vmap), contentDuration)

\* VMAPService.buildAdBreakList
buildAdBreakList(vmap, contentDuration) ==
  SortByTime(KeptEntries(vmap, Len(vmap), contentDuration))

\* ---------------------------------------------------------------------------
\* VAST documents: what vastClient.get(vastUrl) can answer
\* ---------------------------------------------------------------------------

\* A VAST answer is reduced to what AdTracker.initialize reads of it: whether the
\* fetch succeeded and offers an ad with a linear creative with media files, the
\* creative's duration (vast-client gives -1 for a Duration it cannot parse),
\* its skipDelay (<< >> is null) and its click-through template ("" is absent).
\* part_000 also reads the click-through template of the ad and the one of the
\* creative's videoClicks object, which are kept as adClickThrough and
\* nestedClickThrough.
VastFailure ==
  [ok |-> FALSE, duration |-> 0, skipDelay |-> << >>, clickThrough |-> "",
   adClickThrough |-> "", nestedClickThrough |-> ""]

\* Duration 00:00:15, skipoffset 00:00:03, a ClickThrough on the creative and
\* another one on the ad
VastShort ==
  [ok |-> TRUE, duration |-> 150, skipDelay |-> <<30>>, clickThrough |-> "adv",
   adClickThrough |-> "advAd", nestedClickThrough |-> ""]

\* Duration that cannot be parsed, no skipoffset, a ClickThrough on the ad only
VastNoDuration ==
  [ok |-> TRUE, duration |-> 0 - 10, skipDelay |-> << >>, clickThrough |-> "",
   adClickThrough |-> "advAd", nestedClickThrough |-> ""]

\* Duration 00:00:30, skipoffset 00:00:00, no ClickThrough anywhere
VastSkipNow ==
  [ok |-> TRUE, duration |-> 300, skipDelay |-> <<0>>, clickThrough |-> "",
   adClickThrough |-> "", nestedClickThrough |-> ""]

VastResponses == {VastFailure, VastShort, VastNoDuration, VastSkipNow}

\* metadata.clickThrough of AdTracker.initialize:
\* creative.videoClickThroughURLTemplate?.url || creative.videoClickThroughURLTemplate || null
clickThroughOf(creative) == creative.clickThrough

\* the metadata object of AdTracker.initialize
Metadata(creative) ==
  [clickThrough |-> clickThroughOf(creative),
   duration |-> OrNum(creative.duration, DEFAULT_AD_DURATION),
   skipOffset |-> IF creative.skipDelay = << >> THEN DEFAULT_SKIP_OFFSET
                  ELSE OrNum(creative.skipDelay[1], DEFAULT_SKIP_OFFSET)]

\* ---------------------------------------------------------------------------
\* Object references
\* ---------------------------------------------------------------------------

\* currentAdBreak and the breakInfo a pending startAdBreak holds are references
\* to descriptor objects.  A descriptor of the installed list is named by its
\* position; when the list is replaced while currentAdBreak still points into
\* the old one, that one object lives on as `detached`; every other object of a
\* replaced list is "gone" (nothing can read or write it but its own pending
\* startAdBreak, which reads only its immutable breakId).
NullRef == [ref |-> "null", pos |-> 0]

ListRef(p) == [ref |-> "list", pos |-> p]

OldRef == [ref |-> "old", pos |-> 0]

GoneRef == [ref |-> "gone", pos |-> 0]

NoBreak ==
  [index |-> 0, timeInSeconds |-> 0, breakId |-> "", vastUrl |-> "",
   duration |-> 0, skipOffset |-> 0, clickThrough |-> ""]

\* the object a live reference points to
Deref(s, r) == IF r.ref = "list" THEN s.adBreaks[r.pos] ELSE s.detached

\* where a reference points after the list it pointed into was replaced, `cur`
\* being currentAdBreak at that moment
AfterReplace(r, cur) ==
  IF r.ref = "list" THEN (IF r = cur THEN OldRef ELSE GoneRef) ELSE r

\* where a reference points after currentAdBreak stopped pointing to the
\* detached object
AfterRelease(r) == IF r.ref = "old" THEN GoneRef ELSE r

\* The pending startAdBreak calls form a multiset: a function from the calls
\* (breakInfo reference and its breakId) to how many of them are in flight.
NoPending == [e \in {} |-> 0]

RECURSIVE SumCounts(_, _)
SumCounts(b, dom) ==
  IF dom = {} THEN 0
  ELSE LET e == CHOOSE x \in dom : TRUE
       IN b[e] + SumCounts(b, dom \ {e})

\* how many calls are pending
PendingCount(b) == SumCounts(b, DOMAIN b)

AddPending(b, e) ==
  IF e \in DOMAIN b THEN [b EXCEPT ![e] = @ + 1]
  ELSE [x \in DOMAIN b \cup {e} |-> IF x = e THEN 1 ELSE b[x]]

RemovePending(b, e) ==
  IF b[e] > 1 THEN [b EXCEPT ![e] = @ - 1]
  ELSE [x \in DOMAIN b \ {e} |-> b[x]]

\* the pending calls with their breakInfo references rewritten after the list
\* was replaced, cur being currentAdBreak at that moment
RehomeReplaced(b, cur) ==
  LET G(e) == [e EXCEPT !.breakInfo = AfterReplace(e.breakInfo, cur)]
      img == {G(e) : e \in DOMAIN b}
  IN [x \in img |-> SumCounts(b, {e \in DOMAIN b : G(e) = x})]

\* the same, after the detached descriptor was released
RehomeReleased(b) ==
  LET G(e) == [e EXCEPT !.breakInfo = AfterRelease(e.breakInfo)]
      img == {G(e) : e \in DOMAIN b}
  IN [x \in img |-> SumCounts(b, {e \in DOMAIN b : G(e) = x})]

\* ---------------------------------------------------------------------------
\* Effects of one handler run (overlay, tracker, player and window calls)
\* ---------------------------------------------------------------------------

\* What a handler does to the objects around the manager is counted in the fx
\* field of the record its operator returns; it is no part of the program's
\* state, every handler starts counting from NoFx.

NoFx ==
  [show |-> 0,            \* overlayController.show() calls
   hide |-> 0,            \* overlayController.hide() calls
   initialize |-> 0,      \* tracker.initialize() calls
   impression |-> 0,      \* vastTracker.trackImpression() calls
   trackComplete |-> 0,   \* tracker.trackComplete() calls
   complete |-> 0,        \* vastTracker.complete() calls
   trackSkip |-> 0,       \* tracker.trackSkip() calls
   skip |-> 0,            \* vastTracker.skip() calls
   seeks |-> << >>,       \* player.currentTime(target) calls
   progress |-> << >>,    \* elapsed values handed to updateProgress
   errors |-> 0,          \* exceptions that leave the handler (rejections)
   matched |-> NullRef,   \* activeBreak of the last update() call
   entered |-> NullRef,   \* breakInfo of the last startAdBreak() call
   trackClick |-> 0,      \* tracker.trackClick() calls
   opened |-> << >>,      \* window.open(url) calls
   vmapErrors |-> 0]      \* "VMAP error" messages written to the page

\* ---------------------------------------------------------------------------
\* State of the stream-relative program (src/app.js)
\* ---------------------------------------------------------------------------

VARIABLES
  adBreaks,        \* AdBreakManager.adBreaks: sequence of descriptors
  currentAdBreak,  \* AdBreakManager.currentAdBreak: a reference
  detached,        \* the descriptor currentAdBreak points to when it is no
                   \* longer in adBreaks (NoBreak otherwise)
  isInAdBreak,     \* AdBreakManager.isInAdBreak
  vastTracker,     \* AdTracker.vastTracker: << >> or <<session>>
  pending,         \* startAdBreak calls awaiting tracker.initialize
  overlayActive,   \* the overlay element has class "active"
  skipButton,      \* the skip button element: its disabled flag (its label is
                   \* written by updateSkipButton and never read)
  player,          \* VideoPlayerManager.player is not null
  listeners,       \* timeupdate callbacks registered on the player
  loadsInFlight,   \* loadVideo calls awaiting fetchVMAP
  latest           \* history of the most recent loadVideo call: whether its
                   \* fetchVMAP is still awaited (inFlight) and whether its
                   \* answer installed the list in use (installed)

\* State of the content-relative program (src/unnamed/part_000); its globals
\* adBreaks, vastTracker and player carry the suffix CS here
VARIABLES
  adBreaksCS,               \* adBreaks: sequence of descriptors
  currentAd,                \* currentAd: << >> for null, or <<the ad record>>
  vastTrackerCS,            \* vastTracker is not null
  lastTriggeredBreakIndex,  \* lastTriggeredBreakIndex
  contentSource,            \* contentSource.src: "" for null, else a media URL
  currentSource,            \* player.currentSource().src
  playerCS,                 \* player is not null
  contentListeners,         \* how many times handleContentTimeUpdate is
                            \* registered on the player (player.on does not
                            \* merge repeated registrations, player.off
                            \* removes them all)
  errorHandlers,            \* one-shot error callbacks of seekContentPastAd
                            \* waiting on the player
  playPending,              \* promises of player.play() made by the
                            \* loadedmetadata callbacks of seekContentPastAd
                            \* and not yet settled (they outlive the player
                            \* they were made on)
  adListening,              \* onAdTimeUpdate and onAdEnded are registered
  canplayPending,           \* the one-shot canplay callback of triggerAdBreak waits
  resumePending,            \* the one-shot loadedmetadata callbacks of
                            \* seekContentPastAd that wait on the player, in
                            \* the order of their registration: the seekTo
                            \* of each
  pendingVast,              \* triggerAdBreak calls awaiting vastClient.get
  overlayCS,                \* the ad overlay is shown
  loadsInFlightCS,          \* loadVideoAndVMAP calls awaiting fetchAndParseVMAP
  finished                  \* history: the breaks of the installed schedule
                            \* whose ad was triggered and has ended since the load

appVars ==
  <<adBreaks, currentAdBreak, detached, isInAdBreak, vastTracker, pending,
    overlayActive, skipButton, player, listeners, loadsInFlight, latest>>

csVars ==
  <<adBreaksCS, currentAd, vastTrackerCS, lastTriggeredBreakIndex, contentSource,
    currentSource, playerCS, contentListeners, errorHandlers, playPending,
    adListening,
    canplayPending,
    resumePending, pendingVast, overlayCS, loadsInFlightCS, finished>>

vars == <<appVars, csVars>>

\* handleContentTimeUpdate is registered on the player
contentListening == contentListeners > 0

\* the objects the AdBreakManager operators work on, as one record
State ==
  [adBreaks |-> adBreaks, currentAdBreak |-> currentAdBreak, detached |-> detached,
   isInAdBreak |-> isInAdBreak, vastTracker |-> vastTracker, pending |-> pending,
   overlayActive |-> overlayActive,
   skipButton |-> skipButton, fx |-> NoFx]

Becomes(s) ==
  /\ adBreaks' = s.adBreaks
  /\ currentAdBreak' = s.currentAdBreak
  /\ detached' = s.detached
  /\ isInAdBreak' = s.isInAdBreak
  /\ vastTracker' = s.vastTracker
  /\ pending' = s.pending
  /\ overlayActive' = s.overlayActive
  /\ skipButton' = s.skipButton
  /\ UNCHANGED csVars

\* ---------------------------------------------------------------------------
\* AdOverlayController
\* ---------------------------------------------------------------------------

\* Math.ceil(x / 10) for a value x in tenths
CeilTenths(x) == IF x % 10 = 0 THEN x \div 10 ELSE (x \div 10) + 1

\* AdOverlayController.show
show(s) ==
  [s EXCEPT !.overlayActive = TRUE, !.fx.show = @ + 1]

\* AdOverlayController.hide
hide(s) ==
  [s EXCEPT !.overlayActive = FALSE, !.fx.hide = @ + 1]

\* a skip button that is enabled only after the skip offset has passed
SkipButtonShown_late(elapsed, skipOffset) ==
  IF elapsed > skipOffset
  THEN [disabled |-> FALSE, countdown |-> 0]
  ELSE [disabled |-> TRUE, countdown |-> CeilTenths(skipOffset - elapsed)]

\* what updateSkipButton makes of the skip button: its disabled flag and the
\* countdown in its label (0 when the label is "Skip Ad")
SkipButtonShown(elapsed, skipOffset) ==
  IF elapsed >= skipOffset
  THEN [disabled |-> FALSE, countdown |-> 0]
  ELSE [disabled |-> TRUE, countdown |-> CeilTenths(skipOffset - elapsed)]

\* AdOverlayController.updateSkipButton
updateSkipButton(s, elapsed, duration, skipOffset) ==
  [s EXCEPT !.skipButton.disabled = SkipButtonShown(elapsed, skipOffset).disabled]

\* ---------------------------------------------------------------------------
\* AdTracker
\* ---------------------------------------------------------------------------

\* AdTracker.setProgress
setProgress(s, elapsed) == s

\* AdTracker.trackSkip
trackSkip(s) ==
  IF s.vastTracker # << >>
  THEN [s EXCEPT !.fx.trackSkip = @ + 1, !.fx.skip = @ + 1]
  ELSE [s EXCEPT !.fx.trackSkip = @ + 1]

\* AdTracker.trackComplete
trackComplete(s) ==
  IF s.vastTracker # << >>
  THEN [s EXCEPT !.fx.trackComplete = @ + 1, !.fx.complete = @ + 1]
  ELSE [s EXCEPT !.fx.trackComplete = @ + 1]

\* AdTracker.reset
trackerReset(s) == [s EXCEPT !.vastTracker = << >>]

\* ---------------------------------------------------------------------------
\* AdBreakManager
\* ---------------------------------------------------------------------------

\* a loop that adds the 30 s placeholder for every descriptor, whatever its
\* duration field holds
RECURSIVE SumDurations_placeholder(_, _)
SumDurations_placeholder(breaks, n) ==
  IF n <= 0 THEN 0
  ELSE SumDurations_placeholder(breaks, n - 1) + DEFAULT_AD_DURATION

\* the loop of getCumulativeAdDuration over the first n descriptors
RECURSIVE SumDurations(_, _)
SumDurations(breaks, n) ==
  IF n <= 0 THEN 0
  ELSE SumDurations(breaks, n - 1) + OrNum(breaks[n].duration, DEFAULT_AD_DURATION)

\* a sum that runs up to and including upToIndex
getCumulativeAdDuration_inclusive(breaks, upToIndex) ==
  SumDurations(breaks, Min(upToIndex + 1, Len(breaks)))

\* AdBreakManager.getCumulativeAdDuration; upToIndex is a JavaScript index
getCumulativeAdDuration(breaks, upToIndex) ==
  SumDurations(breaks, Min(upToIndex, Len(breaks)))

\* the predicate detectActiveBreak hands to Array.prototype.find, for the
\* descriptor at position p (JavaScript index p - 1)
Matches(breaks, p, hlsTime) ==
  LET adDuration == OrNum(breaks[p].duration, DEFAULT_AD_DURATION)
      cumulativeAdDuration == getCumulativeAdDuration(breaks, p - 1)
      startTime == breaks[p].timeInSeconds + cumulativeAdDuration
      endTime == startTime + adDuration
  IN hlsTime >= startTime /\ hlsTime < endTime

\* AdBreakManager.detectActiveBreak: the position of the first match, 0 for
\* undefined
detectActiveBreak(breaks, hlsTime) ==
  IF \E p \in 1..Len(breaks) : Matches(breaks, p, hlsTime)
  THEN CHOOSE p \in 1..Len(breaks) :
         /\ Matches(breaks, p, hlsTime)
         /\ \A q \in 1..(p - 1) : ~Matches(breaks, q, hlsTime)
  ELSE 0

\* adBreaks.findIndex(b => b.breakId === breakId): a JavaScript index, or -1
findIndex(breaks, breakId) ==
  IF \E p \in 1..Len(breaks) : breaks[p].breakId = breakId
  THEN (CHOOSE p \in 1..Len(breaks) :
          /\ breaks[p].breakId = breakId
          /\ \A q \in 1..(p - 1) : breaks[q].breakId # breakId) - 1
  ELSE 0 - 1

\* assignment of descriptor fields through a reference
WriteRef(s, r, d) ==
  IF r.ref = "list" THEN [s EXCEPT !.adBreaks[r.pos] = d]
  ELSE [s EXCEPT !.detached = d]

\* a startAdBreak that asks for the metadata of a break only the first time
\* the break is entered
startAdBreak_once(s, p) ==
  LET s1 == [s EXCEPT !.isInAdBreak = TRUE,
                      !.currentAdBreak = ListRef(p),
                      !.detached = NoBreak,
                      !.pending = RehomeReleased(@),
                      !.fx.entered = ListRef(p)]
      s2 == show(s1)
  IN IF s.adBreaks[p].clickThrough # "" THEN s2
     ELSE [s2 EXCEPT !.pending = AddPending(@, [breakInfo |-> ListRef(p),
                                                breakId |-> s.adBreaks[p].breakId]),
                     !.fx.initialize = @ + 1]

\* AdBreakManager.startAdBreak up to its await: breakInfo is adBreaks[p]
startAdBreak(s, p) ==
  LET s1 == [s EXCEPT !.isInAdBreak = TRUE,
                      !.currentAdBreak = ListRef(p),
                      !.detached = NoBreak,
                      !.pending = RehomeReleased(@),
                      !.fx.entered = ListRef(p)]
      s2 == show(s1)
  IN [s2 EXCEPT !.pending = AddPending(@, [breakInfo |-> ListRef(p),
                                           breakId |-> s.adBreaks[p].breakId]),
                !.fx.initialize = @ + 1]

\* an endAdBreak that leaves currentAdBreak as it is
endAdBreak_keepsCurrent(s) ==
  LET s1 == trackerReset(trackComplete(s))
      s2 == [s1 EXCEPT !.isInAdBreak = FALSE]
  IN hide(s2)

\* AdBreakManager.endAdBreak
endAdBreak(s) ==
  LET s1 == trackerReset(trackComplete(s))
      s2 == [s1 EXCEPT !.isInAdBreak = FALSE,
                       !.currentAdBreak = NullRef,
                       !.detached = NoBreak,
                       !.pending = RehomeReleased(@)]
  IN hide(s2)

\* AdBreakManager.updateProgress
updateProgress(s, elapsed) ==
  IF s.currentAdBreak = NullRef THEN s
  ELSE LET cur == Deref(s, s.currentAdBreak)
           duration == OrNum(cur.duration, DEFAULT_AD_DURATION)
           skipOffset == OrNum(cur.skipOffset, DEFAULT_SKIP_OFFSET)
           s1 == updateSkipButton(s, elapsed, duration, skipOffset)
       IN setProgress([s1 EXCEPT !.fx.progress = Append(@, elapsed)], elapsed)

\* an update that starts the matched break on every sample, in a break or not
update_reenters(s, hlsTime) ==
  IF Len(s.adBreaks) = 0 THEN s
  ELSE LET activeBreak == detectActiveBreak(s.adBreaks, hlsTime)
       IN IF activeBreak # 0 THEN startAdBreak(s, activeBreak)
          ELSE IF s.isInAdBreak THEN endAdBreak(s)
          ELSE s

\* AdBreakManager.update
update(s, hlsTime) ==
  IF Len(s.adBreaks) = 0 THEN s
  ELSE LET activeBreak == detectActiveBreak(s.adBreaks, hlsTime)
           s0 == [s EXCEPT !.fx.matched =
                    IF activeBreak = 0 THEN NullRef ELSE ListRef(activeBreak)]
       IN IF activeBreak # 0 /\ ~s.isInAdBreak
          THEN startAdBreak(s0, activeBreak)
          ELSE IF activeBreak = 0 /\ s.isInAdBreak
          THEN endAdBreak(s0)
          ELSE IF activeBreak # 0 /\ s.isInAdBreak /\ s.currentAdBreak # NullRef
          THEN LET cur == Deref(s, s.currentAdBreak)
                   breakIndex == findIndex(s.adBreaks, cur.breakId)
                   cumulativeAdDuration == getCumulativeAdDuration(s.adBreaks, breakIndex)
                   adjustedStartTime == cur.timeInSeconds + cumulativeAdDuration
                   elapsed == hlsTime - adjustedStartTime
               IN updateProgress(s0, elapsed)
          ELSE s0

\* a continuation that reads the fields of a null metadata object
resolveMetadata_unchecked(s0, e, vast) ==
  LET s == [s0 EXCEPT !.pending = RemovePending(@, e)]
  IN IF ~vast.ok THEN [s EXCEPT !.fx.errors = @ + 1]
     ELSE [s EXCEPT !.vastTracker = <<[breakId |-> e.breakId,
                                       clickThrough |-> vast.clickThrough]>>,
                    !.fx.impression = @ + 1]

\* an initialize that fires the impression as soon as the VAST request has
\* answered, before it looks for a linear creative
resolveMetadata_impressionFirst(s0, e, vast) ==
  LET s == [s0 EXCEPT !.pending = RemovePending(@, e),
                      !.fx.impression = @ + 1]
  IN
  IF ~vast.ok THEN s
  ELSE LET metadata == Metadata(vast)
           s1 == [s EXCEPT !.vastTracker = <<[breakId |-> e.breakId,
                                              clickThrough |-> vast.clickThrough]>>]
       IN IF s1.currentAdBreak = NullRef
          THEN [s1 EXCEPT !.fx.errors = @ + 1]
          ELSE LET cur == Deref(s1, s1.currentAdBreak)
                   s2 == WriteRef(s1, s1.currentAdBreak,
                           [cur EXCEPT !.clickThrough = metadata.clickThrough,
                                       !.duration = metadata.duration,
                                       !.skipOffset = metadata.skipOffset])
                   breakIndex == findIndex(s2.adBreaks, e.breakId)
               IN IF breakIndex # 0 - 1
                  THEN [s2 EXCEPT
                          !.adBreaks[breakIndex + 1].duration = metadata.duration,
                          !.adBreaks[breakIndex + 1].skipOffset = metadata.skipOffset]
                  ELSE s2

\* the continuation of startAdBreak after `await this.tracker.initialize`, for
\* the pending call e and the VAST answer: AdTracker.initialize creates the
\* tracking session and fires the impression, then startAdBreak writes the
\* metadata through this.currentAdBreak and into the master list
resolveMetadata(s0, e, vast) ==
  LET s == [s0 EXCEPT !.pending = RemovePending(@, e)]
  IN
  IF ~vast.ok THEN s
  ELSE LET metadata == Metadata(vast)
           s1 == [s EXCEPT !.vastTracker = <<[breakId |-> e.breakId,
                                              clickThrough |-> vast.clickThrough]>>,
                           !.fx.impression = @ + 1]
       IN IF s1.currentAdBreak = NullRef
          THEN [s1 EXCEPT !.fx.errors = @ + 1]
          ELSE LET cur == Deref(s1, s1.currentAdBreak)
                   s2 == WriteRef(s1, s1.currentAdBreak,
                           [cur EXCEPT !.clickThrough = metadata.clickThrough,
                                       !.duration = metadata.duration,
                                       !.skipOffset = metadata.skipOffset])
                   breakIndex == findIndex(s2.adBreaks, e.breakId)
                   s3 == IF breakIndex # 0 - 1
                         THEN [s2 EXCEPT
                                 !.adBreaks[breakIndex + 1].duration = metadata.duration,
                                 !.adBreaks[breakIndex + 1].skipOffset = metadata.skipOffset]
                         ELSE s2
               IN s3

\* a skipCurrentAd that ends the break itself instead of leaving it to update
skipCurrentAd_forcesExit(s, hasPlayer) ==
  IF s.currentAdBreak = NullRef \/ ~hasPlayer THEN s
  ELSE LET cur == Deref(s, s.currentAdBreak)
           breakIndex == findIndex(s.adBreaks, cur.breakId)
           cumulativeAdDuration == getCumulativeAdDuration(s.adBreaks, breakIndex)
           adDuration == OrNum(cur.duration, DEFAULT_AD_DURATION)
           endTime == cur.timeInSeconds + cumulativeAdDuration + adDuration
           s1 == trackSkip(s)
       IN [s1 EXCEPT !.fx.seeks = Append(@, endTime),
                     !.isInAdBreak = FALSE,
                     !.currentAdBreak = NullRef,
                     !.detached = NoBreak,
                     !.pending = RehomeReleased(@)]

\* AdBreakManager.skipCurrentAd; hasPlayer is the truthiness of its argument
skipCurrentAd(s, hasPlayer) ==
  IF s.currentAdBreak = NullRef \/ ~hasPlayer THEN s
  ELSE LET cur == Deref(s, s.currentAdBreak)
           breakIndex == findIndex(s.adBreaks, cur.breakId)
           cumulativeAdDuration == getCumulativeAdDuration(s.adBreaks, breakIndex)
           adDuration == OrNum(cur.duration, DEFAULT_AD_DURATION)
           endTime == cur.timeInSeconds + cumulativeAdDuration + adDuration
           s1 == trackSkip(s)
       IN [s1 EXCEPT !.fx.seeks = Append(@, endTime)]

\* a reset that leaves the tracker's session in place
reset_keepsSession(s) ==
  [s EXCEPT !.adBreaks = << >>,
            !.currentAdBreak = NullRef,
            !.detached = NoBreak,
            !.isInAdBreak = FALSE,
            !.pending = RehomeReleased(RehomeReplaced(@, NullRef))]

\* AdBreakManager.reset
reset(s) ==
  LET s1 == [s EXCEPT !.adBreaks = << >>,
                      !.currentAdBreak = NullRef,
                      !.detached = NoBreak,
                      !.isInAdBreak = FALSE,
                      !.pending = RehomeReleased(RehomeReplaced(@, NullRef))]
  IN trackerReset(s1)

\* AdBreakManager.setAdBreaks: the list object is replaced; a descriptor that
\* currentAdBreak still points to lives on outside the list
setAdBreaks(s, list) ==
  [s EXCEPT !.adBreaks = list,
            !.detached = IF s.currentAdBreak.ref = "list"
                         THEN s.adBreaks[s.currentAdBreak.pos] ELSE @,
            !.currentAdBreak = AfterReplace(@, s.currentAdBreak),
            !.pending = RehomeReplaced(@, s.currentAdBreak)]

\* AdTracker.trackClick: the promise it returns.  With no session it is resolved
\* with null.  With a session it is resolved by the tracker's 'clickthrough'
\* event: VASTTracker.click() emits it, before it returns, with the click-through
\* of the session's creative, and does not emit it when the creative has none,
\* so that the promise is never settled.
trackClick(s) ==
  IF s.vastTracker = << >> THEN [settled |-> TRUE, url |-> ""]
  ELSE IF s.vastTracker[1].clickThrough # ""
       THEN [settled |-> TRUE, url |-> s.vastTracker[1].clickThrough]
       ELSE [settled |-> FALSE, url |-> ""]

\* a clickCurrentAd without the guard on currentAdBreak
clickCurrentAd_unguarded(s) ==
  LET trackerUrl == trackClick(s)
      s1 == [s EXCEPT !.fx.trackClick = @ + 1]
      url == OrStr(trackerUrl.url, Deref(s, s.currentAdBreak).clickThrough)
  IN IF ~trackerUrl.settled THEN s1
     ELSE IF url # "" THEN [s1 EXCEPT !.fx.opened = Append(@, url)]
     ELSE s1

\* AdBreakManager.clickCurrentAd; its continuation after the await runs before
\* any other handler when the promise is settled, and never otherwise
clickCurrentAd(s) ==
  IF s.currentAdBreak = NullRef THEN s
  ELSE LET trackerUrl == trackClick(s)
           s1 == [s EXCEPT !.fx.trackClick = @ + 1]
           url == OrStr(trackerUrl.url, Deref(s, s.currentAdBreak).clickThrough)
       IN IF ~trackerUrl.settled THEN s1
          ELSE IF url # "" THEN [s1 EXCEPT !.fx.opened = Append(@, url)]
          ELSE s1

\* ---------------------------------------------------------------------------
\* Inputs
\* ---------------------------------------------------------------------------

\* entries of a schedule document (vmap.adBreaks)
EntryPre == [timeOffset |-> OffStart, breakId |-> "", adTagURI |-> UriString]

EntryMid == [timeOffset |-> OffMid, breakId |-> "", adTagURI |-> UriString]

EntryMidA == [timeOffset |-> OffMid, breakId |-> "a", adTagURI |-> UriObject]

EntryNoUri == [timeOffset |-> OffEnd, breakId |-> "", adTagURI |-> UriAbsent]

EntryPercent == [timeOffset |-> OffPercent, breakId |-> "", adTagURI |-> UriString]

Entries == {EntryPre, EntryMidA, EntryNoUri}

\* the schedule documents fetchVMAP can return
Documents == UNION {[1..n -> Entries] : n \in 0..MaxBreaks}

\* schedule documents with three breaks at the start of the content
BurstDocuments == {<<EntryPre, EntryPercent, EntryPercent>>}

\* entries that cover every form of time offset and of ad tag URI
EntryEarly == [timeOffset |-> OffEarly, breakId |-> "", adTagURI |-> UriString]

EntryPost == [timeOffset |-> OffEnd, breakId |-> "post", adTagURI |-> UriBareObject]

EntryGarbled == [timeOffset |-> OffGarbled, breakId |-> "", adTagURI |-> UriString]

EntryNoOffset == [timeOffset |-> OffAbsent, breakId |-> "", adTagURI |-> UriObject]

AllEntries ==
  {EntryPre, EntryMidA, EntryNoUri, EntryPercent,
   EntryEarly, EntryPost, EntryGarbled, EntryNoOffset}

\* the schedule documents the builder is tried on
BuildDocuments == UNION {[1..n -> AllEntries] : n \in 0..MaxEntries}

\* the time offsets the parser is tried on
Offsets == {OffStart, OffEnd, OffAbsent, OffMid, OffEarly, OffPercent, OffGarbled}

\* the clock samples tried against a list: the bounds of every window, one
\* tenth before and after them, and the start of the stream
SampleTimes(breaks) ==
  LET start(p) == breaks[p].timeInSeconds + getCumulativeAdDuration(breaks, p - 1)
      end(p) == start(p) + OrNum(breaks[p].duration, DEFAULT_AD_DURATION)
      marks == {0} \cup {start(p) : p \in 1..Len(breaks)}
                   \cup {end(p) : p \in 1..Len(breaks)}
  IN {t \in UNION {{m - 1, m, m + 1} : m \in marks} : t >= 0}

\* ---------------------------------------------------------------------------
\* The content-relative program (src/unnamed/part_000)
\* ---------------------------------------------------------------------------

\* AD_TRIGGER_TOLERANCE, 0.5 s
AD_TRIGGER_TOLERANCE == 5

\* the ad duration triggerAdBreak falls back to, 15 s
FALLBACK_AD_DURATION == 150

\* parseTimeOffsetToSeconds
parseTimeOffsetToSeconds(timeOffset, totalDuration) ==
  IF timeOffset.lit = "start" THEN 0
  ELSE IF timeOffset.lit = "end" THEN totalDuration
  ELSE IF Len(timeOffset.parts) = 3
       THEN NumOrZero(timeOffset.parts[1]) * 36000
            + NumOrZero(timeOffset.parts[2]) * 600
            + NumOrZero(timeOffset.parts[3])
       ELSE 0

\* getVastUrlFromBreak: "" stands for null
getVastUrlFromBreak(adBreak) ==
  IF adBreak.adTagURI.kind = "absent" THEN ""
  ELSE IF adBreak.adTagURI.kind = "object" /\ adBreak.adTagURI.uri # ""
       THEN adBreak.adTagURI.uri
       ELSE IF adBreak.adTagURI.kind = "object" THEN "[object]"
            ELSE adBreak.adTagURI.uri

\* the descriptor part_000's buildAdBreakList pushes for entry i (0-based)
DescriptorCS(br, i, contentDurationSec) ==
  [index |-> i,
   timeInSeconds |-> parseTimeOffsetToSeconds(IF br.timeOffset.lit = "" THEN OffStart
                                              ELSE br.timeOffset, contentDurationSec),
   breakId |-> OrStr(br.breakId, "break_" \o ToString(i)),
   vastUrl |-> getVastUrlFromBreak(br)]

\* the loop of part_000's buildAdBreakList over the first n entries
RECURSIVE KeptEntriesCS(_, _, _)
KeptEntriesCS(vmap, n, contentDurationSec) ==
  IF n = 0 THEN << >>
  ELSE LET rest == KeptEntriesCS(vmap, n - 1, contentDurationSec)
           d == DescriptorCS(vmap[n], n - 1, contentDurationSec)
       IN IF d.vastUrl # "" THEN Append(rest, d) ELSE rest

\* part_000's buildAdBreakList
buildAdBreakListCS(vmap, contentDurationSec) ==
  SortByTime(KeptEntriesCS(vmap, Len(vmap), contentDurationSec))

\* What vastClient.get can answer in triggerAdBreak: a rejection, a response
\* without a usable ad (no creatives, no linear creative or no media file), or
\* a linear creative with a media file.
VastRejected ==
  [kind |-> "rejected", duration |-> 0, skipDelay |-> << >>, clickThrough |-> "",
   adClickThrough |-> "", nestedClickThrough |-> ""]

VastEmpty ==
  [kind |-> "empty", duration |-> 0, skipDelay |-> << >>, clickThrough |-> "",
   adClickThrough |-> "", nestedClickThrough |-> ""]

VastAd ==
  [kind |-> "ad", duration |-> 150, skipDelay |-> <<30>>, clickThrough |-> "adv",
   adClickThrough |-> "advAd", nestedClickThrough |-> ""]

VastAdNoDuration ==
  [kind |-> "ad", duration |-> 0 - 10, skipDelay |-> <<30>>, clickThrough |-> "",
   adClickThrough |-> "", nestedClickThrough |-> "adv"]

VastAnswers == {VastRejected, VastEmpty, VastAd, VastAdNoDuration}

NoFxCS ==
  [triggered |-> << >>,   \* breakInfo of the triggerAdBreak() calls
   fetches |-> 0,         \* vastClient.get() calls
   impression |-> 0,      \* vastTracker.trackImpression() calls
   complete |-> 0,        \* vastTracker.complete() calls
   skip |-> 0,            \* vastTracker.skip() calls
   progress |-> << >>,    \* vastTracker.setProgress(elapsed) calls
   show |-> 0,            \* showAdOverlay() calls
   hide |-> 0,            \* hideAdOverlay() calls
   seeks |-> << >>]       \* player.currentTime(seekTo) calls

\* the globals of part_000 and the player's listeners, as one record
StateCS ==
  [adBreaks |-> adBreaksCS, currentAd |-> currentAd, vastTracker |-> vastTrackerCS,
   lastTriggeredBreakIndex |-> lastTriggeredBreakIndex,
   contentSource |-> contentSource, currentSource |-> currentSource,
   player |-> playerCS, contentListeners |-> contentListeners,
   errorHandlers |-> errorHandlers, playPending |-> playPending,
   adListening |-> adListening, canplayPending |-> canplayPending,
   resumePending |-> resumePending, pendingVast |-> pendingVast,
   overlay |-> overlayCS, finished |-> finished, fx |-> NoFxCS]

BecomesCS(s) ==
  /\ adBreaksCS' = s.adBreaks
  /\ currentAd' = s.currentAd
  /\ vastTrackerCS' = s.vastTracker
  /\ lastTriggeredBreakIndex' = s.lastTriggeredBreakIndex
  /\ contentSource' = s.contentSource
  /\ currentSource' = s.currentSource
  /\ playerCS' = s.player
  /\ contentListeners' = s.contentListeners
  /\ errorHandlers' = s.errorHandlers
  /\ playPending' = s.playPending
  /\ adListening' = s.adListening
  /\ canplayPending' = s.canplayPending
  /\ resumePending' = s.resumePending
  /\ pendingVast' = s.pendingVast
  /\ overlayCS' = s.overlay
  /\ finished' = s.finished
  /\ UNCHANGED appVars

\* the calls of pendingVast and the ad of currentAd, marked as belonging to an
\* earlier schedule (their fresh flag is history, the program does not read it)
Outdated(s) ==
  LET G(e) == [e EXCEPT !.fresh = FALSE]
      img == {G(e) : e \in DOMAIN s.pendingVast}
  IN [s EXCEPT !.pendingVast =
                 [x \in img |-> SumCounts(s.pendingVast,
                                          {e \in DOMAIN s.pendingVast : G(e) = x})],
               !.currentAd = IF @ = << >> THEN @ ELSE <<[@[1] EXCEPT !.fresh = FALSE]>>,
               !.finished = {}]

\* triggerAdBreak up to vastClient.get
triggerAdBreak(s, breakInfo) ==
  IF s.currentAd # << >> THEN s
  ELSE [s EXCEPT !.lastTriggeredBreakIndex = breakInfo.index,
                 !.pendingVast = AddPending(@, [breakInfo |-> breakInfo, fresh |-> TRUE]),
                 !.fx.triggered = Append(@, breakInfo),
                 !.fx.fetches = @ + 1]

\* the test handleContentTimeUpdate makes of break br against the clock t
InTriggerWindow(br, t) ==
  IF br.timeInSeconds <= 0 THEN t < AD_TRIGGER_TOLERANCE
  ELSE IF br.timeInSeconds >= ContentDuration - AD_TRIGGER_TOLERANCE
       THEN t >= ContentDuration - AD_TRIGGER_TOLERANCE
       ELSE (t - br.timeInSeconds <= AD_TRIGGER_TOLERANCE
             /\ br.timeInSeconds - t <= AD_TRIGGER_TOLERANCE)

\* the break at which the loop of handleContentTimeUpdate stops: the first
\* position (JavaScript index i = p - 1) that is not lastTriggeredBreakIndex and
\* whose test succeeds; 0 when the loop runs to its end
FirstToTrigger(s, t) ==
  LET hit(p) == /\ s.lastTriggeredBreakIndex # p - 1
                /\ InTriggerWindow(s.adBreaks[p], t)
  IN IF \E p \in 1..Len(s.adBreaks) : hit(p)
     THEN CHOOSE p \in 1..Len(s.adBreaks) : hit(p) /\ \A q \in 1..(p - 1) : ~hit(q)
     ELSE 0

\* handleContentTimeUpdate, t being player.currentTime()
handleContentTimeUpdate(s, t) ==
  IF s.currentAd # << >> THEN s
  ELSE IF s.contentSource = "" \/ s.currentSource = ""
          \/ s.currentSource # s.contentSource
  THEN s
  ELSE LET p == FirstToTrigger(s, t)
       IN IF p = 0 THEN s ELSE triggerAdBreak(s, s.adBreaks[p])

\* seekContentPastAd up to the registration of its one-shot callbacks
seekContentPastAd(s, adStartTime, adDuration) ==
  IF ~s.player THEN s
  ELSE LET seekTo == Min(adStartTime + adDuration + 5, ContentDuration)
       IN IF s.contentSource = "" THEN s
          ELSE [s EXCEPT !.currentSource = s.contentSource,
                         !.resumePending = Append(@, seekTo),
                         !.errorHandlers = @ + 1]

\* cleanupAdAndResume
cleanupAdAndResume(s, wasSkipped) ==
  IF s.currentAd = << >> THEN s
  ELSE LET ad == s.currentAd[1]
           s1 == [s EXCEPT !.adListening = FALSE,
                           !.fx.skip = IF wasSkipped /\ s.vastTracker THEN @ + 1 ELSE @,
                           !.currentAd = << >>,
                           !.vastTracker = FALSE,
                           !.overlay = FALSE,
                           !.fx.hide = @ + 1,
                           !.finished = IF ad.fresh THEN @ \cup {ad.breakInfo} ELSE @]
       IN seekContentPastAd(s1, ad.startContentTime, ad.duration)
\* an ended handler that cleans up whether or not there is a session
onAdEnded_unguarded(s) ==
  LET s1 == [s EXCEPT !.adListening = FALSE,
                      !.fx.complete = IF s.vastTracker THEN @ + 1 ELSE @,
                      !.currentAd = << >>,
                      !.vastTracker = FALSE,
                      !.overlay = FALSE,
                      !.fx.hide = @ + 1]
  IN seekContentPastAd(s1, 0, FALLBACK_AD_DURATION)

\* onAdEnded
onAdEnded(s) ==
  IF s.currentAd = << >> THEN s
  ELSE cleanupAdAndResume(
         [s EXCEPT !.fx.complete = IF s.vastTracker THEN @ + 1 ELSE @], FALSE)

\* onAdTimeUpdate, elapsed being player.currentTime()
onAdTimeUpdate(s, elapsed) ==
  IF s.currentAd = << >> \/ ~s.player \/ ~s.vastTracker THEN s
  ELSE LET s1 == [s EXCEPT !.fx.progress = Append(@, elapsed)]
       IN IF elapsed >= s.currentAd[1].duration
          THEN cleanupAdAndResume([s1 EXCEPT !.fx.complete = @ + 1], FALSE)
          ELSE s1

\* part_000's skipAd
skipAdCS(s) ==
  IF s.currentAd = << >> THEN s
  ELSE IF ~s.player THEN s
  ELSE cleanupAdAndResume(s, TRUE)

\* the clickThrough of triggerAdBreak: the template of the creative, else the
\* one of the ad, else the one of creative.videoClicks, else null
clickThroughOfCS(vast) ==
  IF vast.clickThrough # "" THEN vast.clickThrough
  ELSE IF vast.adClickThrough # "" THEN vast.adClickThrough
  ELSE IF vast.nestedClickThrough # "" THEN vast.nestedClickThrough
  ELSE ""

\* the callbacks of vastClient.get in triggerAdBreak, for the pending call e
vastAnswered(s0, e, vast) ==
  LET s == [s0 EXCEPT !.pendingVast = RemovePending(@, e)]
  IN IF vast.kind = "rejected" THEN [s EXCEPT !.lastTriggeredBreakIndex = 0 - 1]
     ELSE IF vast.kind = "empty" THEN s
     ELSE LET duration == IF vast.duration > 0 THEN vast.duration
                          ELSE FALLBACK_AD_DURATION
              skipOffset == IF vast.skipDelay # << >> /\ vast.skipDelay[1] >= 0
                            THEN vast.skipDelay[1] ELSE DEFAULT_SKIP_OFFSET
          IN [s EXCEPT !.currentAd = <<[breakInfo |-> e.breakInfo,
                                        duration |-> duration,
                                        skipOffset |-> skipOffset,
                                        clickThrough |-> clickThroughOfCS(vast),
                                        startContentTime |-> e.breakInfo.timeInSeconds,
                                        fresh |-> e.fresh]>>,
                       !.vastTracker = TRUE,
                       !.fx.impression = @ + 1,
                       !.overlay = TRUE,
                       !.fx.show = @ + 1,
                       !.contentListeners = 0,
                       !.contentSource = s.currentSource,
                       !.currentSource = "ad",
                       !.canplayPending = TRUE]

\* the one-shot canplay callback of triggerAdBreak
adCanPlay(s) ==
  LET s1 == [s EXCEPT !.canplayPending = FALSE]
  IN IF ~s.vastTracker \/ s.currentAd = << >> THEN s1
     ELSE [s1 EXCEPT !.adListening = TRUE]

\* a loadedmetadata event of the player: every one-shot callback left by
\* seekContentPastAd runs, in the order of registration; each seeks to its
\* seekTo and calls player.play(), whose promise settles in a later task
contentResumed(s) ==
  [s EXCEPT !.fx.seeks = @ \o s.resumePending,
            !.resumePending = << >>,
            !.playPending = @ + Len(s.resumePending)]

\* a promise of player.play() made by seekContentPastAd settles: its then and
\* its catch callback both register handleContentTimeUpdate on the player
\* the global `player` names at that time
playSettled(s) ==
  [s EXCEPT !.playPending = @ - 1,
            !.contentListeners = @ + 1]

\* the one-shot error callbacks of seekContentPastAd: each one that waits on
\* the player registers handleContentTimeUpdate
playerError(s) ==
  [s EXCEPT !.contentListeners = @ + s.errorHandlers,
            !.errorHandlers = 0]

\* loadVideoAndVMAP up to the answer of fetchAndParseVMAP: the old player is
\* disposed with its listeners, the new one created, the content loaded
loadVideoAndVMAP(s) ==
  [Outdated(s) EXCEPT !.player = TRUE,
                      !.lastTriggeredBreakIndex = 0 - 1,
                      !.adBreaks = << >>,
                      !.currentSource = "content",
                      !.contentSource = "content",
                      !.contentListeners = 1,
                      !.errorHandlers = 0,
                      !.adListening = FALSE,
                      !.canplayPending = FALSE,
                      !.resumePending = << >>]

\* the clock samples tried against a list: each break's time, the edges of its
\* trigger window and one tenth outside them, the start and the end of the
\* content
SampleTimesCS(breaks) ==
  LET marks == {0, ContentDuration} \cup {breaks[p].timeInSeconds : p \in 1..Len(breaks)}
      near(m) == {m - AD_TRIGGER_TOLERANCE - 1, m - AD_TRIGGER_TOLERANCE, m,
                  m + AD_TRIGGER_TOLERANCE, m + AD_TRIGGER_TOLERANCE + 1}
  IN {t \in UNION {near(m) : m \in marks} : t >= 0 /\ t <= ContentDuration}

InitCS ==
  /\ adBreaksCS = << >>
  /\ currentAd = << >>
  /\ vastTrackerCS = FALSE
  /\ lastTriggeredBreakIndex = 0 - 1
  /\ contentSource = ""
  /\ currentSource = ""
  /\ playerCS = FALSE
  /\ contentListeners = 0
  /\ errorHandlers = 0
  /\ playPending = 0
  /\ adListening = FALSE
  /\ canplayPending = FALSE
  /\ resumePending = << >>
  /\ pendingVast = NoPending
  /\ overlayCS = FALSE
  /\ loadsInFlightCS = 0
  /\ finished = {}

\* ---------------------------------------------------------------------------
\* Actions of the stream-relative program
\* ---------------------------------------------------------------------------

InitApp ==
  /\ adBreaks = << >>
  /\ currentAdBreak = NullRef
  /\ detached = NoBreak
  /\ isInAdBreak = FALSE
  /\ vastTracker = << >>
  /\ pending = NoPending
  /\ overlayActive = FALSE
  /\ skipButton = [disabled |-> TRUE]
  /\ player = FALSE
  /\ listeners = 0
  /\ loadsInFlight = 0
  /\ latest = [inFlight |-> FALSE, installed |-> FALSE]

Init == InitApp /\ InitCS

\* AdDemoApp.loadVideo with an empty content URL: alert and return
LoadRejected ==
  /\ Becomes(State)
  /\ UNCHANGED <<player, listeners, loadsInFlight, latest>>

\* AdDemoApp.loadVideo up to `await VMAPService.fetchVMAP`: reset, then
\* VideoPlayerManager.initialize disposes the player (with its listeners) and
\* creates a new one
LoadVideo ==
  /\ loadsInFlight < MaxLoads
  /\ Becomes(reset(State))
  /\ player' = TRUE
  /\ listeners' = 0
  /\ loadsInFlight' = loadsInFlight + 1
  /\ latest' = [inFlight |-> TRUE, installed |-> FALSE]

\* the fetchVMAP that settles belongs to the most recent loadVideo call or,
\* late, to an earlier call that is still waiting; installs tells whether the
\* continuation installs a list
FetchSettles(installs) ==
  \E late \in BOOLEAN :
    /\ IF late THEN loadsInFlight > (IF latest.inFlight THEN 1 ELSE 0)
       ELSE latest.inFlight
    /\ latest' = [inFlight |-> latest.inFlight /\ late,
                  installed |-> IF installs THEN ~late ELSE latest.installed]

\* AdDemoApp.loadVideo after fetchVMAP answered with a document: the list is
\* built and installed, then the timeupdate listener is registered
VmapFetched ==
  /\ loadsInFlight > 0
  /\ \E vmap \in Documents :
       Becomes(setAdBreaks(State, buildAdBreakList(vmap, ContentDuration)))
  /\ listeners' = listeners + 1
  /\ loadsInFlight' = loadsInFlight - 1
  /\ FetchSettles(TRUE)
  /\ UNCHANGED player

\* the same, the document being one of BurstDocuments
VmapFetchedBurst ==
  /\ loadsInFlight > 0
  /\ \E vmap \in BurstDocuments :
       Becomes(setAdBreaks(State, buildAdBreakList(vmap, ContentDuration)))
  /\ listeners' = listeners + 1
  /\ loadsInFlight' = loadsInFlight - 1
  /\ FetchSettles(TRUE)
  /\ UNCHANGED player

\* the catch block of AdDemoApp.loadVideo: the error is logged and written to
\* the page
vmapFailed(s) == [s EXCEPT !.fx.vmapErrors = @ + 1]

\* AdDemoApp.loadVideo after fetchVMAP threw (non-2xx or unparseable XML): the
\* error is shown, then the timeupdate listener is registered
VmapFailed ==
  /\ loadsInFlight > 0
  /\ Becomes(vmapFailed(State))
  /\ listeners' = listeners + 1
  /\ loadsInFlight' = loadsInFlight - 1
  /\ FetchSettles(FALSE)
  /\ UNCHANGED player

\* update() run once by each registered listener
RECURSIVE UpdateTimes(_, _, _)
UpdateTimes(s, n, hlsTime) ==
  IF n = 0 THEN s ELSE update(UpdateTimes(s, n - 1, hlsTime), hlsTime)

\* a timeupdate event of the player at clock value hlsTime
TimeUpdate ==
  /\ player
  /\ listeners > 0
  /\ \E hlsTime \in SampleTimes(adBreaks) :
       LET s == UpdateTimes(State, listeners, hlsTime)
       IN /\ PendingCount(s.pending) <= MaxPending
          /\ Becomes(s)
  /\ UNCHANGED <<player, listeners, loadsInFlight, latest>>

\* vastClient.get answers a pending startAdBreak
MetadataResolved ==
  /\ \E e \in DOMAIN pending, vast \in VastResponses :
       Becomes(resolveMetadata(State, e, vast))
  /\ UNCHANGED <<player, listeners, loadsInFlight, latest>>

\* AdDemoApp.skipAd
SkipAd ==
  /\ Becomes(skipCurrentAd(State, player))
  /\ UNCHANGED <<player, listeners, loadsInFlight, latest>>

\* AdDemoApp.clickAd
ClickAd ==
  /\ Becomes(clickCurrentAd(State))
  /\ UNCHANGED <<player, listeners, loadsInFlight, latest>>

Next ==
  \/ LoadRejected
  \/ LoadVideo
  \/ VmapFetched
  \/ VmapFailed
  \/ TimeUpdate
  \/ MetadataResolved
  \/ SkipAd
  \/ ClickAd

Spec == Init /\ [][Next]_vars

\* the program fed with schedules of three breaks at the start of the content
NextBurst ==
  \/ LoadRejected
  \/ LoadVideo
  \/ VmapFetchedBurst
  \/ VmapFailed
  \/ TimeUpdate
  \/ MetadataResolved
  \/ SkipAd
  \/ ClickAd

SpecBurst == Init /\ [][NextBurst]_vars

\* the same as VmapFetched, the document being one of BuildDocuments
VmapFetchedAny ==
  /\ loadsInFlight > 0
  /\ \E vmap \in BuildDocuments :
       Becomes(setAdBreaks(State, buildAdBreakList(vmap, ContentDuration)))
  /\ listeners' = listeners + 1
  /\ loadsInFlight' = loadsInFlight - 1
  /\ FetchSettles(TRUE)
  /\ UNCHANGED player

\* the program up to the installation of the list, fed with every kind of
\* schedule entry
NextBuild ==
  \/ LoadRejected
  \/ LoadVideo
  \/ VmapFetchedAny
  \/ VmapFailed

SpecBuild == Init /\ [][NextBuild]_vars


\* ---------------------------------------------------------------------------
\* Actions of the content-relative program
\* ---------------------------------------------------------------------------

\* loadVideoAndVMAP with a content URL
LoadVideoAndVMAP ==
  /\ loadsInFlightCS < MaxLoads
  /\ BecomesCS(loadVideoAndVMAP(StateCS))
  /\ loadsInFlightCS' = loadsInFlightCS + 1

\* fetchAndParseVMAP answers with a document: the list is built and installed
VmapFetchedCS ==
  /\ loadsInFlightCS > 0
  /\ \E vmap \in Documents :
       BecomesCS([Outdated(StateCS) EXCEPT
                    !.adBreaks = buildAdBreakListCS(vmap, ContentDuration)])
  /\ loadsInFlightCS' = loadsInFlightCS - 1

\* fetchAndParseVMAP throws: the error is shown
VmapFailedCS ==
  /\ loadsInFlightCS > 0
  /\ BecomesCS(StateCS)
  /\ loadsInFlightCS' = loadsInFlightCS - 1

\* handleContentTimeUpdate run once by each of its registrations
RECURSIVE ContentTimes(_, _, _)
ContentTimes(s, n, t) ==
  IF n = 0 THEN s ELSE handleContentTimeUpdate(ContentTimes(s, n - 1, t), t)

\* a timeupdate event of the player reaches handleContentTimeUpdate, at one of
\* the clock samples of SampleTimesCS
ContentTimeUpdate ==
  /\ playerCS
  /\ contentListening
  /\ \E s \in {ContentTimes(StateCS, contentListeners, t) :
                  t \in SampleTimesCS(adBreaksCS)} :
       /\ PendingCount(s.pendingVast) <= MaxPending
       /\ BecomesCS(s)
  /\ UNCHANGED loadsInFlightCS

\* vastClient.get answers a pending triggerAdBreak
VastAnswered ==
  /\ playerCS
  /\ \E e \in DOMAIN pendingVast, vast \in VastAnswers :
       BecomesCS(vastAnswered(StateCS, e, vast))
  /\ UNCHANGED loadsInFlightCS

\* the ad media can play
AdCanPlay ==
  /\ canplayPending
  /\ BecomesCS(adCanPlay(StateCS))
  /\ UNCHANGED loadsInFlightCS

\* a timeupdate event of the player reaches onAdTimeUpdate
AdTimeUpdate ==
  /\ playerCS
  /\ adListening
  /\ \E elapsed \in {0, DEFAULT_SKIP_OFFSET, FALLBACK_AD_DURATION} :
       LET s == onAdTimeUpdate(StateCS, elapsed)
       IN /\ s.errorHandlers <= MaxErrorHandlers
          /\ Len(s.resumePending) <= MaxResumes
          /\ BecomesCS(s)
  /\ UNCHANGED loadsInFlightCS

\* the ad media ends
AdEnded ==
  /\ adListening
  /\ onAdEnded(StateCS).errorHandlers <= MaxErrorHandlers
  /\ Len(onAdEnded(StateCS).resumePending) <= MaxResumes
  /\ BecomesCS(onAdEnded(StateCS))
  /\ UNCHANGED loadsInFlightCS

\* the skip button of part_000
SkipAdCS ==
  /\ skipAdCS(StateCS).errorHandlers <= MaxErrorHandlers
  /\ Len(skipAdCS(StateCS).resumePending) <= MaxResumes
  /\ BecomesCS(skipAdCS(StateCS))
  /\ UNCHANGED loadsInFlightCS

\* the content is loaded again after the ad: loadedmetadata
ContentResumed ==
  /\ resumePending # << >>
  /\ playPending + Len(resumePending) <= MaxPlays
  /\ BecomesCS(contentResumed(StateCS))
  /\ UNCHANGED loadsInFlightCS

\* player.play() of the resumption is resolved or rejected
PlaySettled ==
  /\ playerCS
  /\ playPending > 0
  /\ contentListeners < MaxListeners
  /\ BecomesCS(playSettled(StateCS))
  /\ UNCHANGED loadsInFlightCS

\* an error event of the player (a media source that cannot be loaded or
\* decoded) reaches the error callbacks left by seekContentPastAd
PlayerError ==
  /\ playerCS
  /\ errorHandlers > 0
  /\ contentListeners + errorHandlers <= MaxListeners
  /\ BecomesCS(playerError(StateCS))
  /\ UNCHANGED loadsInFlightCS

NextCS ==
  \/ LoadVideoAndVMAP
  \/ VmapFetchedCS
  \/ VmapFailedCS
  \/ ContentTimeUpdate
  \/ VastAnswered
  \/ AdCanPlay
  \/ AdTimeUpdate
  \/ AdEnded
  \/ SkipAdCS
  \/ ContentResumed
  \/ PlaySettled
  \/ PlayerError

SpecCS == Init /\ [][NextCS]_vars

\* the content-relative program with the callbacks that are bound to come: the
\* answer of vastClient.get, the timeupdate and ended events of an ad that
\* plays, and loadedmetadata and the settling of play() after the swap back to
\* the content.  Whether the ad media becomes playable, and what the user does,
\* is left open.
SpecCSLive ==
  /\ Init
  /\ [][NextCS]_vars
  /\ WF_vars(VastAnswered)
  /\ WF_vars(AdTimeUpdate)
  /\ WF_vars(AdEnded)
  /\ WF_vars(ContentResumed)
  /\ WF_vars(PlaySettled)

\* schedule documents with a post-roll: alone, after a pre-roll, after a mid-roll
PostDocuments ==
  {<<EntryPost>>, <<EntryPre, EntryPost>>, <<EntryMidA, EntryPost>>}

\* the same as VmapFetchedCS, the document being one of PostDocuments
VmapFetchedCSPost ==
  /\ loadsInFlightCS > 0
  /\ \E vmap \in PostDocuments :
       BecomesCS([Outdated(StateCS) EXCEPT
                    !.adBreaks = buildAdBreakListCS(vmap, ContentDuration)])
  /\ loadsInFlightCS' = loadsInFlightCS - 1

\* the content-relative program fed with schedules that end with a post-roll
NextCSPost ==
  \/ LoadVideoAndVMAP
  \/ VmapFetchedCSPost
  \/ VmapFailedCS
  \/ ContentTimeUpdate
  \/ VastAnswered
  \/ AdCanPlay
  \/ AdTimeUpdate
  \/ AdEnded
  \/ SkipAdCS
  \/ ContentResumed
  \/ PlaySettled
  \/ PlayerError

SpecCSPost == Init /\ [][NextCSPost]_vars

\* ---------------------------------------------------------------------------
\* The stream-relative timeline, as the specification words it
\* ---------------------------------------------------------------------------

\* the duration a break has at present: the resolved one, the placeholder before
CurrentDuration(b) == IF b.duration = 0 THEN DEFAULT_AD_DURATION ELSE b.duration

\* sum of the present durations of the breaks at the positions ps
RECURSIVE SumOver(_, _)
SumOver(breaks, ps) ==
  IF ps = {} THEN 0
  ELSE LET p == CHOOSE x \in ps : TRUE
       IN CurrentDuration(breaks[p]) + SumOver(breaks, ps \ {p})

\* start of the shifted window of the break at position p
ShiftedStart(breaks, p) == breaks[p].timeInSeconds + SumOver(breaks, 1..(p - 1))

\* t lies in the shifted window of the break at position p
InWindow(breaks, p, t) ==
  /\ ShiftedStart(breaks, p) <= t
  /\ t < ShiftedStart(breaks, p) + CurrentDuration(breaks[p])

\* t lies in some window
InSomeWindow(breaks, t) == \E p \in 1..Len(breaks) : InWindow(breaks, p, t)

\* the positions adBreaks.findIndex(breakId) puts before a break
LookedUpBefore(breaks, breakId) == 1..findIndex(breaks, breakId)

\* ---------------------------------------------------------------------------
\* Claims
\* ---------------------------------------------------------------------------

\* C1: in every reachable state of the AdBreakManager (after any sequence of
\* loads, resets, clock samples, skips, clicks and metadata resolutions)
\* isInAdBreak is true exactly when currentAdBreak is not null.
C1_InBreakIffCurrent == isInAdBreak <=> (currentAdBreak # NullRef)

\* a break is active, its metadata resolved, while another load is in flight
C1_Witness ==
  /\ isInAdBreak
  /\ currentAdBreak # NullRef
  /\ vastTracker # << >>
  /\ loadsInFlight > 0

\* C2: a metadata resolution that completes for a break that is no longer the
\* current one (after exit, after another break became active, after a reset)
\* is discarded: it changes no descriptor, neither currentAdBreak nor
\* isInAdBreak, and raises no error.
C2_StaleResolutionDiscarded ==
  \A e \in DOMAIN pending, vast \in VastResponses :
    e.breakInfo # currentAdBreak =>
      LET r == resolveMetadata(State, e, vast)
      IN /\ r.adBreaks = adBreaks
         /\ r.detached = detached
         /\ r.currentAdBreak = currentAdBreak
         /\ r.isInAdBreak = isInAdBreak
         /\ r.fx.errors = 0

\* C3: in the content-relative program a break whose ad was triggered and has
\* ended is not triggered again by a later clock sample, whatever the schedule
\* and wherever the clock is moved, until the next load.
C3_NoRetrigger ==
  (playerCS /\ contentListening) =>
    \A t \in SampleTimesCS(adBreaksCS) :
      LET r == handleContentTimeUpdate(StateCS, t)
      IN \A k \in 1..Len(r.fx.triggered) : r.fx.triggered[k] \notin finished

\* C4: update(t) in IDLE with t inside a break's window enters IN_BREAK with a
\* break whose window holds t as currentAdBreak, calls show once and starts one
\* resolution; a further sample in that window, and any in-window sample while
\* IN_BREAK, causes no show and no resolution.
C4_EntryOnce ==
  \A t \in SampleTimes(adBreaks) :
    InSomeWindow(adBreaks, t) =>
      LET r == update(State, t)
      IN IF ~isInAdBreak
         THEN /\ r.isInAdBreak
              /\ r.currentAdBreak.ref = "list"
              /\ InWindow(adBreaks, r.currentAdBreak.pos, t)
              /\ r.fx.show = 1
              /\ r.fx.initialize = 1
              /\ PendingCount(r.pending) = PendingCount(pending) + 1
              /\ [breakInfo |-> r.currentAdBreak,
                  breakId |-> adBreaks[r.currentAdBreak.pos].breakId] \in DOMAIN r.pending
              /\ r.adBreaks = adBreaks
              /\ \A t2 \in SampleTimes(adBreaks) :
                   InWindow(adBreaks, r.currentAdBreak.pos, t2) =>
                     LET r2 == update(r, t2)
                     IN /\ r2.fx.show = 1
                        /\ r2.fx.initialize = 1
                        /\ r2.currentAdBreak = r.currentAdBreak
                        /\ r2.pending = r.pending
         ELSE /\ r.isInAdBreak
              /\ r.currentAdBreak = currentAdBreak
              /\ r.fx.show = 0
              /\ r.fx.initialize = 0
              /\ r.pending = pending

\* the mid-roll was entered: overlay shown, one resolution in flight
C4_Witness ==
  /\ isInAdBreak
  /\ overlayActive
  /\ Len(adBreaks) = 2
  /\ currentAdBreak = ListRef(2)
  /\ PendingCount(pending) = 1
  /\ [breakInfo |-> ListRef(2), breakId |-> adBreaks[2].breakId] \in DOMAIN pending
  /\ vastTracker = << >>

\* C5: update(t) in IN_BREAK with t in no window goes to IDLE: trackComplete is
\* called, hide is called once, currentAdBreak and isInAdBreak are cleared, and
\* the same sample again causes no second exit.
C5_ExitOnce ==
  \A t \in SampleTimes(adBreaks) :
    (isInAdBreak /\ ~InSomeWindow(adBreaks, t)) =>
      LET r == update(State, t)
          r2 == update(r, t)
      IN /\ ~r.isInAdBreak
         /\ r.currentAdBreak = NullRef
         /\ r.fx.trackComplete = 1
         /\ r.fx.hide = 1
         /\ r2.fx.trackComplete = 1
         /\ r2.fx.hide = 1

\* pre-roll with the 30 s placeholder and a mid-roll at 00:05:00
PreAndMid == buildAdBreakList(<<EntryPre, EntryMid>>, ContentDuration)

\* C6: detectActiveBreak(t) returns break b exactly when t lies in b's shifted
\* window, start_b <= t < start_b + duration_b, start_b being timeInSeconds plus
\* the durations of the breaks before b; with a 30 s pre-roll and a mid-roll at
\* 300 s, 329.9 matches nothing and 330.1 matches the mid-roll.
C6_DetectIffInWindow ==
  /\ \A t \in SampleTimes(adBreaks), p \in 1..Len(adBreaks) :
       (detectActiveBreak(adBreaks, t) = p) <=> InWindow(adBreaks, p, t)
  /\ detectActiveBreak(PreAndMid, 3299) = 0
  /\ detectActiveBreak(PreAndMid, 3301) = 2

\* the descriptors at positions ps whose index field is less than n
WithOrdinalBelow(breaks, n) == {q \in 1..Len(breaks) : breaks[q].index < n}

\* descriptors with the durations 30 s, 45 s and 20 s
ThreeDurations ==
  [p \in 1..3 |-> [Descriptor(EntryPre, p - 1, ContentDuration)
                     EXCEPT !.duration = <<300, 450, 200>>[p]]]

\* C7 as stated: the shift of a break is the sum of the present durations of
\* the breaks whose ordinalIndex (index) is smaller than its own.
C7_ShiftByOrdinal ==
  \A p \in 1..Len(adBreaks) :
    getCumulativeAdDuration(adBreaks, p - 1)
      = SumOver(adBreaks, WithOrdinalBelow(adBreaks, adBreaks[p].index))

\* C7, amended: the shift of a break is the sum of the present durations of the
\* breaks at smaller positions of the sorted list, the break itself excluded,
\* and detection compares the sample against timeInSeconds plus that shift;
\* durations 30, 45, 20 give a shift of 75 for position 2.
C7_ShiftByPosition ==
  /\ \A p \in 1..Len(adBreaks) :
       /\ getCumulativeAdDuration(adBreaks, p - 1) = SumOver(adBreaks, 1..(p - 1))
       /\ \A t \in SampleTimes(adBreaks) :
            Matches(adBreaks, p, t) <=> InWindow(adBreaks, p, t)
  /\ getCumulativeAdDuration(ThreeDurations, 2) = 750

\* a schedule whose document order is not chronological, the first break of
\* the sorted list resolved to 15 s
C7_Witness ==
  /\ Len(adBreaks) = 2
  /\ adBreaks[1].index = 1
  /\ adBreaks[2].index = 0
  /\ adBreaks[1].duration = 150
  /\ getCumulativeAdDuration(adBreaks, 1) = 150

\* C8: nothing caches the shift: when the resolution of the current break gives
\* the duration d, the descriptor holds d, and in the state it leaves every
\* window computation (the windows detection compares against, the elapsed
\* time of update, the skip target) adds up the durations the descriptors hold
\* now.
C8_ResolvedDurationUsed ==
  /\ \A e \in DOMAIN pending, vast \in VastResponses :
       (vast.ok /\ e.breakInfo = currentAdBreak) =>
         LET r == resolveMetadata(State, e, vast)
             d == Metadata(vast).duration
             cur == Deref(r, r.currentAdBreak)
             before == LookedUpBefore(r.adBreaks, cur.breakId)
         IN /\ cur.duration = d
            /\ \A p \in 1..Len(r.adBreaks), t \in SampleTimes(r.adBreaks) :
                 Matches(r.adBreaks, p, t) <=> InWindow(r.adBreaks, p, t)
            /\ skipCurrentAd(r, TRUE).fx.seeks
                 = <<cur.timeInSeconds + SumOver(r.adBreaks, before) + d>>
            /\ \A t \in SampleTimes(r.adBreaks) :
                 InSomeWindow(r.adBreaks, t) =>
                   update(r, t).fx.progress
                     = <<t - (cur.timeInSeconds + SumOver(r.adBreaks, before))>>
  /\ \A p \in 1..Len(adBreaks), t \in SampleTimes(adBreaks) :
       Matches(adBreaks, p, t) <=> InWindow(adBreaks, p, t)

\* the mid-roll is current and the pre-roll before it was resolved to 15 s
C8_Witness ==
  /\ Len(adBreaks) = 2
  /\ currentAdBreak = ListRef(2)
  /\ adBreaks[1].duration = 150
  /\ adBreaks[2].duration = 150
  /\ vastTracker # << >>
  /\ Matches(adBreaks, 2, 3150)

\* C9: the shifted windows of two different breaks never overlap: no clock
\* value lies in the windows of two breaks.
C9_WindowsDisjoint ==
  \A p \in 1..Len(adBreaks), q \in 1..Len(adBreaks), t \in SampleTimes(adBreaks) :
    (InWindow(adBreaks, p, t) /\ InWindow(adBreaks, q, t)) => p = q

\* C10: skipCurrentAd with a break of the list active and a player calls
\* trackSkip once and seeks once, to the shifted start of the break plus its
\* resolved duration.
C10_SkipSeeksPastBreak ==
  (currentAdBreak.ref = "list" /\ player) =>
    LET r == skipCurrentAd(State, player)
        p == currentAdBreak.pos
    IN /\ r.fx.trackSkip = 1
       /\ r.fx.seeks = <<ShiftedStart(adBreaks, p) + CurrentDuration(adBreaks[p])>>

\* currentAdBreak points to the same object, or to none, before and after a
\* step (a replaced list keeps the object alive as `detached`)
SameCurrent ==
  \/ currentAdBreak' = currentAdBreak
  \/ /\ currentAdBreak.ref = "list"
     /\ currentAdBreak' = OldRef
     /\ detached' = adBreaks[currentAdBreak.pos]

\* skipCurrentAd and clickCurrentAd change neither flag, reference nor list
SkipAndClickKeepState ==
  \A hasPlayer \in BOOLEAN :
    LET r == skipCurrentAd(State, hasPlayer)
        c == clickCurrentAd(State)
    IN /\ r.isInAdBreak = isInAdBreak
       /\ r.currentAdBreak = currentAdBreak
       /\ r.adBreaks = adBreaks
       /\ r.detached = detached
       /\ c.isInAdBreak = isInAdBreak
       /\ c.currentAdBreak = currentAdBreak
       /\ c.adBreaks = adBreaks
       /\ c.detached = detached

\* C11: skipCurrentAd and clickCurrentAd leave isInAdBreak, currentAdBreak and
\* the break list as they are, and only a step of update() (a timeupdate) or of
\* reset() (a load) changes isInAdBreak or the object currentAdBreak points to.
C11_Frame ==
  /\ []SkipAndClickKeepState
  /\ [][(isInAdBreak' = isInAdBreak /\ SameCurrent) \/ TimeUpdate \/ LoadVideo]_vars

\* a break with a session and a click-through is active: skip seeks, click opens
C11_Witness ==
  /\ isInAdBreak
  /\ player
  /\ skipCurrentAd(State, player).fx.seeks # << >>
  /\ clickCurrentAd(State).fx.opened # << >>

\* the state after skipCurrentAd, possibly a pending resolution, and then the
\* clock sample at the skip's seek target ends the break
SampleAtTargetExits(afterSkip, beforeSample) ==
  LET r == update(beforeSample, afterSkip.fx.seeks[1])
  IN /\ ~r.isInAdBreak
     /\ r.currentAdBreak = NullRef
     /\ r.fx.trackComplete = 1
     /\ r.fx.hide = 1
     /\ ~r.overlayActive

\* C12: after skipCurrentAd in IN_BREAK the clock sample at the seek target
\* takes the manager from IN_BREAK to IDLE (trackComplete called, overlay
\* hidden), also when a pending metadata resolution completes between the skip
\* and that sample.
C12_SkipThenExit ==
  (isInAdBreak /\ currentAdBreak # NullRef /\ player) =>
    LET afterSkip == skipCurrentAd(State, player)
        fresh == [afterSkip EXCEPT !.fx = NoFx]
    IN /\ SampleAtTargetExits(afterSkip, fresh)
       /\ \A e \in DOMAIN pending, vast \in VastResponses :
            LET resolved == resolveMetadata(fresh, e, vast)
            IN resolved.fx.errors = 0 =>
                 SampleAtTargetExits(afterSkip, [resolved EXCEPT !.fx = NoFx])

\* C13: with no active break skipCurrentAd and clickCurrentAd do nothing: no
\* seek, no tracker call, no target opened, no state change, no error.
C13_NoBreakNoOp ==
  currentAdBreak = NullRef =>
    /\ \A hasPlayer \in BOOLEAN : skipCurrentAd(State, hasPlayer) = State
    /\ clickCurrentAd(State) = State

\* no break is active while a tracking session exists and a player is there
C13_Witness ==
  /\ currentAdBreak = NullRef
  /\ ~isInAdBreak
  /\ player
  /\ vastTracker # << >>
  /\ Len(adBreaks) > 0

\* the redirect target the tracking session provides on a click ("" for none)
TrackerTarget == IF vastTracker = << >> THEN "" ELSE vastTracker[1].clickThrough

\* C14: a click in IN_BREAK calls the tracker's click once and opens at most
\* one target: the one the tracker provides, else the active break's own
\* click-through, else nothing; no error is raised.
C14_ClickOpensTarget ==
  (isInAdBreak /\ currentAdBreak # NullRef) =>
    LET r == clickCurrentAd(State)
        own == Deref(State, currentAdBreak).clickThrough
    IN /\ r.fx.trackClick = 1
       /\ r.fx.errors = 0
       /\ r.fx.opened = IF TrackerTarget # "" THEN <<TrackerTarget>>
                        ELSE IF own # "" THEN <<own>>
                        ELSE << >>

\* C15: a metadata resolution that yields null (fetch or parse error, no
\* playable linear creative) changes no descriptor, neither isInAdBreak nor
\* currentAdBreak, creates no session and raises no error.
C15_NullResolutionKeepsAll ==
  \A e \in DOMAIN pending, vast \in {v \in VastResponses : ~v.ok} :
    LET r == resolveMetadata(State, e, vast)
    IN /\ r.adBreaks = adBreaks
       /\ r.detached = detached
       /\ r.currentAdBreak = currentAdBreak
       /\ r.isInAdBreak = isInAdBreak
       /\ r.vastTracker = vastTracker
       /\ r.fx = NoFx
       /\ PendingCount(r.pending) = PendingCount(pending) - 1

\* a break is active, its only resolution has completed, and there is no
\* session: the resolution yielded null and the placeholders are still there
C15_Witness ==
  /\ isInAdBreak
  /\ currentAdBreak = ListRef(1)
  /\ pending = NoPending
  /\ vastTracker = << >>
  /\ adBreaks[1].duration = DEFAULT_AD_DURATION
  /\ adBreaks[1].skipOffset = DEFAULT_SKIP_OFFSET
  /\ adBreaks[1].clickThrough = ""

\* C16: while a break is active and a clock sample t matches that same break,
\* update(t) hands exactly one elapsed value to updateProgress (skip button and
\* tracker progress), that value is t minus the shifted start of the active
\* break, and it lies in [0, duration of the active break).
C16_ElapsedInBreak ==
  \A p \in 1..Len(adBreaks), t \in SampleTimes(adBreaks) :
    (/\ isInAdBreak
     /\ currentAdBreak = ListRef(p)
     /\ detectActiveBreak(adBreaks, t) = p)
    => LET r == update(State, t)
           elapsed == t - ShiftedStart(adBreaks, p)
       IN /\ r.fx.progress = <<elapsed>>
          /\ 0 <= elapsed
          /\ elapsed < CurrentDuration(adBreaks[p])

\* the positions (0-based) of the entries of a document that have an ad tag URI
KeptPositions(vmap) == {i \in 0..(Len(vmap) - 1) : extractVastUrl(vmap[i + 1]) # ""}

\* the list is in non-decreasing order of timeInSeconds
SortedByTime(list) ==
  \A p \in 1..(Len(list) - 1) : list[p].timeInSeconds <= list[p + 1].timeInSeconds

\* C17: for every schedule document the list buildAdBreakList returns is sorted
\* non-decreasing by timeInSeconds, holds one descriptor for each entry with an
\* ad tag URI and none for the others, and every descriptor has a locator; the
\* installed list is such a list in every state.
C17_SortedWithLocators ==
  /\ \A vmap \in BuildDocuments :
       LET list == buildAdBreakList(vmap, ContentDuration)
       IN /\ SortedByTime(list)
          /\ \A p \in 1..Len(list) : list[p].vastUrl # ""
          /\ Len(list) = Cardinality(KeptPositions(vmap))
  /\ SortedByTime(adBreaks)
  /\ \A p \in 1..Len(adBreaks) : adBreaks[p].vastUrl # ""

\* the installed list was built from a document whose first entry is the later
\* one and whose second entry was discarded
C17_Witness ==
  /\ Len(adBreaks) = 2
  /\ adBreaks[1].index = 2
  /\ adBreaks[2].index = 0
  /\ adBreaks[1].timeInSeconds < adBreaks[2].timeInSeconds

\* C18 as the specification words it: the ordinal indexes of the descriptors of
\* the installed list are 0..k-1, without gaps, and the id of a descriptor is
\* the one its entry gives or break_<ordinalIndex>.
C18_IndexAmongKept ==
  /\ {adBreaks[p].index : p \in 1..Len(adBreaks)} = 0..(Len(adBreaks) - 1)
  /\ \A p \in 1..Len(adBreaks) :
       adBreaks[p].breakId
         \in {"a", "post", "break_" \o ToString(adBreaks[p].index)}

\* C18: the index of a descriptor is the position of its entry in the schedule
\* document, discarded entries counted (kept descriptors can leave gaps), each
\* kept entry has exactly one descriptor, and a descriptor whose entry gives no
\* id gets the id break_<index>.
C18_IndexIsDocumentPosition ==
  /\ \A vmap \in BuildDocuments :
    LET list == buildAdBreakList(vmap, ContentDuration)
    IN /\ {list[p].index : p \in 1..Len(list)} = KeptPositions(vmap)
       /\ Len(list) = Cardinality(KeptPositions(vmap))
       /\ \A p \in 1..Len(list) :
            LET br == vmap[list[p].index + 1]
            IN /\ list[p].vastUrl = extractVastUrl(br)
               /\ list[p].breakId = IF br.breakId # "" THEN br.breakId
                                    ELSE "break_" \o ToString(list[p].index)
  /\ \A p, q \in 1..Len(adBreaks) : adBreaks[p].index = adBreaks[q].index => p = q
  /\ \A p \in 1..Len(adBreaks) :
       /\ adBreaks[p].index \in 0..(MaxEntries - 1)
       /\ adBreaks[p].breakId
            \in {"a", "post", "break_" \o ToString(adBreaks[p].index)}

\* the only descriptor of the installed list comes from the second entry of its
\* document, the first having been discarded
C18_Witness ==
  /\ Len(adBreaks) = 1
  /\ adBreaks[1].index = 1
  /\ adBreaks[1].breakId = "break_1"

\* C19: parseTimeOffset gives 0 for "start", the content duration for "end",
\* H*3600 + M*60 + S for H:M:S ("00:01:30" is 90 s, "00:05:00" is 300 s, a
\* component that is not a number counts 0) and 0 for everything else; it has a
\* value for every input.
C19_ParseTimeOffset ==
  /\ parseTimeOffset(OffStart, ContentDuration) = 0
  /\ parseTimeOffset(OffEnd, ContentDuration) = ContentDuration
  /\ parseTimeOffset(OffEarly, ContentDuration) = 900
  /\ parseTimeOffset(OffMid, ContentDuration) = 3000
  /\ parseTimeOffset(OffGarbled, ContentDuration) = 600
  /\ parseTimeOffset(OffPercent, ContentDuration) = 0
  /\ parseTimeOffset(OffAbsent, ContentDuration) = 0
  /\ \A o \in Offsets : parseTimeOffset(o, ContentDuration) \in 0..ContentDuration
  /\ \A p \in 1..Len(adBreaks) :
       adBreaks[p].timeInSeconds \in {0, 600, 900, 3000, ContentDuration}

\* the installed list holds the results of parsing "00:01:30", "xx:01:yy" and
\* "end"
C19_Witness ==
  /\ Len(adBreaks) = 3
  /\ adBreaks[1].timeInSeconds = 600
  /\ adBreaks[2].timeInSeconds = 900
  /\ adBreaks[3].timeInSeconds = ContentDuration

\* C20: when the resolution of the current break succeeds, the duration the
\* descriptor gets is the creative's declared duration if that is positive and
\* the 30 s default otherwise.
C20_PositiveDurationOrDefault ==
  \A e \in DOMAIN pending, vast \in VastResponses :
    (vast.ok /\ currentAdBreak # NullRef /\ e.breakInfo = currentAdBreak) =>
      LET r == resolveMetadata(State, e, vast)
      IN Deref(r, r.currentAdBreak).duration
           = IF vast.duration > 0 THEN vast.duration ELSE DEFAULT_AD_DURATION

\* C21: when the resolution of the current break succeeds, the skip offset the
\* descriptor gets is the creative's declared skip delay if it is present and
\* not negative (a declared 0 stays 0) and the 5 s default otherwise.
C21_SkipDelayOrDefault ==
  \A e \in DOMAIN pending, vast \in VastResponses :
    (vast.ok /\ currentAdBreak # NullRef /\ e.breakInfo = currentAdBreak) =>
      LET r == resolveMetadata(State, e, vast)
      IN Deref(r, r.currentAdBreak).skipOffset
           = IF vast.skipDelay # << >> /\ vast.skipDelay[1] >= 0
             THEN vast.skipDelay[1] ELSE DEFAULT_SKIP_OFFSET

\* the first present of the three click-through targets of a VAST answer
FirstPresent(vast) ==
  IF vast.clickThrough # "" THEN vast.clickThrough
  ELSE IF vast.adClickThrough # "" THEN vast.adClickThrough
  ELSE vast.nestedClickThrough

\* C22: when the resolution of the current break succeeds, the click-through
\* target the descriptor gets is the first present of the creative's target,
\* the ad's target and the target of the nested click-tracking object; it is
\* null only when all three are absent.
C22_FirstPresentClickThrough ==
  \A e \in DOMAIN pending, vast \in VastResponses :
    (vast.ok /\ currentAdBreak # NullRef /\ e.breakInfo = currentAdBreak) =>
      LET r == resolveMetadata(State, e, vast)
      IN Deref(r, r.currentAdBreak).clickThrough = FirstPresent(vast)

\* elapsed times and skip offsets around the boundary, in tenths of a second
SkipElapsed == {0, 1, 9, 10, 11, 29, 30, 31, 40, 41, 49, 50, 51, 300}

SkipOffsets == {0, 30, 50}

\* C23: updateSkipButton shows a disabled button with the countdown
\* ceil(skipOffset - elapsed), which is at least 1, whenever elapsed <
\* skipOffset (elapsed 4.9 of 5 gives 1), and an enabled skip action whenever
\* elapsed >= skipOffset (elapsed 5.0 of 5); every progress update of an active
\* break leaves the button in that state.
C23_SkipButtonBoundary ==
  /\ \A elapsed \in SkipElapsed, skipOffset \in SkipOffsets :
       LET b == SkipButtonShown(elapsed, skipOffset)
       IN IF elapsed < skipOffset
          THEN /\ b.disabled
               /\ b.countdown >= 1
               /\ 10 * b.countdown >= skipOffset - elapsed
               /\ 10 * (b.countdown - 1) < skipOffset - elapsed
          ELSE ~b.disabled /\ b.countdown = 0
  /\ SkipButtonShown(49, 50) = [disabled |-> TRUE, countdown |-> 1]
  /\ SkipButtonShown(50, 50) = [disabled |-> FALSE, countdown |-> 0]
  /\ \A t \in SampleTimes(adBreaks) :
       LET r == update(State, t)
       IN r.fx.progress # << >> =>
            LET skipOffset == OrNum(Deref(State, currentAdBreak).skipOffset,
                                    DEFAULT_SKIP_OFFSET)
            IN r.skipButton.disabled = (r.fx.progress[1] < skipOffset)

\* a progress update of the active break has enabled the skip button, and the
\* sample at the start of the break would disable it again
C23_Witness ==
  /\ isInAdBreak
  /\ currentAdBreak = ListRef(1)
  /\ ~skipButton.disabled
  /\ adBreaks[1].skipOffset = 30
  /\ update(State, adBreaks[1].timeInSeconds).skipButton.disabled

\* the trigger rule of the content-relative mode, as the specification words
\* it, for a break at content time c and a sample t
TriggerRule(c, t) ==
  IF c <= 0 THEN t < AD_TRIGGER_TOLERANCE
  ELSE IF c >= ContentDuration - AD_TRIGGER_TOLERANCE
       THEN t >= ContentDuration - AD_TRIGGER_TOLERANCE
       ELSE (IF t >= c THEN t - c ELSE c - t) <= AD_TRIGGER_TOLERANCE

\* the handler is past its guards: no ad session, the content is the source
ContentPlaying ==
  /\ currentAd = << >>
  /\ contentSource # ""
  /\ currentSource = contentSource

\* a clock sample of the content video is delivered to handleContentTimeUpdate:
\* the listener is registered on the player and the player's source is the
\* content video (whether the handler then passes its own guards is
\* ContentPlaying)
ContentSampled ==
  /\ playerCS
  /\ contentListening
  /\ currentSource = "content"

\* C24: whenever the content plays with the timeupdate listener registered, a
\* clock sample t triggers at most one break and only one whose rule matches t
\* (pre-roll: t < 0.5; post-roll: t >= contentDuration - 0.5; mid-roll:
\* |t - contentTimeSeconds| <= 0.5), and it does trigger a break when the rule
\* of some break matches t, that break not being the one lastTriggeredBreakIndex
\* names (the break whose index was stored there); the test the handler makes
\* of a break is the rule, and a pre-roll at 0 matches the sample 0.1.
C24_TriggerRules ==
  ContentSampled =>
    \A t \in SampleTimesCS(adBreaksCS) :
      LET r == handleContentTimeUpdate(StateCS, t)
          matching == {p \in 1..Len(adBreaksCS) :
                         /\ adBreaksCS[p].index # lastTriggeredBreakIndex
                         /\ TriggerRule(adBreaksCS[p].timeInSeconds, t)}
      IN /\ Len(r.fx.triggered) <= 1
         /\ \A i \in 1..Len(r.fx.triggered) :
              TriggerRule(r.fx.triggered[i].timeInSeconds, t)
         /\ matching # {} => Len(r.fx.triggered) = 1
         /\ \A p \in 1..Len(adBreaksCS) :
              /\ InTriggerWindow(adBreaksCS[p], t)
                   <=> TriggerRule(adBreaksCS[p].timeInSeconds, t)
              /\ adBreaksCS[p].timeInSeconds = 0 => InTriggerWindow(adBreaksCS[p], 1)

\* C25: whenever the content timeupdate listener is not registered on the
\* player (it was removed for an ad), it is registered again later, whatever
\* becomes of the ad.
C25_ListenerRestored == (playerCS /\ ~contentListening) ~> contentListening

\* C26: whenever the content timeupdate listener is registered, the ad session
\* (currentAd and its tracker) has been cleared, the player is not on the ad
\* source and no resumption of the content is still under way.
C26_ClearedBeforeListening ==
  (playerCS /\ contentListening) =>
    /\ currentAd = << >>
    /\ ~vastTrackerCS
    /\ currentSource # "ad"
    /\ resumePending = << >>

\* reset() leaves the manager in IDLE with an empty list and without session
ResetGivesIdle ==
  LET r == reset(State)
  IN /\ ~r.isInAdBreak
     /\ r.currentAdBreak = NullRef
     /\ r.adBreaks = << >>
     /\ r.vastTracker = << >>
     /\ r.fx = NoFx

\* C27: from every state, a load leaves the manager in IDLE, with an empty
\* break list and without tracking session, and a schedule is installed only
\* by the continuation of a load, after that load's reset.
C27_LoadResets ==
  /\ []ResetGivesIdle
  /\ [][LoadVideo => /\ ~isInAdBreak'
                     /\ currentAdBreak' = NullRef
                     /\ adBreaks' = << >>
                     /\ vastTracker' = << >>]_vars
  /\ [][Len(adBreaks') > Len(adBreaks) => loadsInFlight' = loadsInFlight - 1]_vars

\* a load was made during a break whose resolution is still pending: the
\* overlay is still shown, the manager is in IDLE with an empty list
C27_Witness ==
  /\ loadsInFlight > 0
  /\ overlayActive
  /\ PendingCount(pending) > 0
  /\ adBreaks = << >>
  /\ ~isInAdBreak
  /\ currentAdBreak = NullRef
  /\ vastTracker = << >>

\* clock samples tried against an empty list
SamplesOfContent == {0, 1, DEFAULT_AD_DURATION, 3000, ContentDuration}

\* nothing is scheduled: the list is empty, the manager is in IDLE and every
\* clock sample is a no-op
NothingScheduled ==
  /\ adBreaks = << >>
  /\ ~isInAdBreak
  /\ currentAdBreak = NullRef
  /\ \A t \in SamplesOfContent : update(State, t) = State

\* C28: when fetchVMAP throws, the error is shown once and nothing else is done
\* (no list is installed, no further fetch, no state change); and when it is
\* the fetch of the latest load that throws, the load ends with an empty list,
\* in IDLE, every clock sample being a no-op.
C28_FailedLoadIsInert ==
  /\ [](LET r == vmapFailed(State)
        IN /\ r.fx = [NoFx EXCEPT !.vmapErrors = 1]
           /\ [r EXCEPT !.fx = NoFx] = State)
  /\ [][(VmapFailed /\ latest.inFlight /\ ~latest'.inFlight)
          => NothingScheduled']_vars

\* the ways an ad session ends: skip, the ended event, the timeupdate at which
\* the ad reaches its duration
AdOutcomes ==
  {skipAdCS(StateCS), onAdEnded(StateCS),
   onAdTimeUpdate(StateCS, IF currentAd = << >> THEN 0 ELSE currentAd[1].duration)}

\* the resumption after outcome r ends at the position target (the seek of the
\* callback registered last), and the first content sample, taken there, does
\* not trigger the break that was played
ResumesPast(r, played, target) ==
  /\ r.resumePending # << >>
  /\ r.resumePending[Len(r.resumePending)] = target
  /\ ~TriggerRule(played.timeInSeconds, target)
  /\ LET resumed == [playSettled(contentResumed(r)) EXCEPT !.fx = NoFxCS]
     IN /\ resumed.contentListeners > 0
        /\ played \notin
             {handleContentTimeUpdate(resumed, target).fx.triggered[i] :
                i \in 1..Len(handleContentTimeUpdate(resumed, target).fx.triggered)}

\* C29: when an ad session ends (completed or skipped) the content is resumed
\* at adStartTime + adDuration + 0.5 s, which lies outside the trigger window of
\* the break that was played, and the sample at that position does not trigger
\* that break again; for pre-roll, mid-roll and post-roll.
C29_ResumePastBreak ==
  (currentAd # << >> /\ vastTrackerCS /\ playerCS /\ contentSource # "") =>
    \A r \in AdOutcomes :
      ResumesPast(r, currentAd[1].breakInfo,
                  currentAd[1].startContentTime + currentAd[1].duration
                    + AD_TRIGGER_TOLERANCE)

\* C30: once the ad session is cleared (currentAd or the tracker is null), the
\* ad's timeupdate, ended and canplay callbacks change nothing and call
\* nothing: no tracking event, no playback, no cleanup, no seek, no error;
\* currentAd and the tracker are cleared together.  (The canplay callback is a
\* one-shot: firing consumes it.)
C30_StaleAdCallbacksInert ==
  /\ (currentAd = << >>) <=> ~vastTrackerCS
  /\ (currentAd = << >> \/ ~vastTrackerCS) =>
       /\ \A elapsed \in {0, DEFAULT_SKIP_OFFSET, FALLBACK_AD_DURATION} :
            onAdTimeUpdate(StateCS, elapsed) = StateCS
       /\ onAdEnded(StateCS) = StateCS
       /\ adCanPlay(StateCS) = [StateCS EXCEPT !.canplayPending = FALSE]

\* the ad was skipped before it became playable: the session is cleared, the
\* canplay callback is still registered and the content is being resumed
C30_Witness ==
  /\ playerCS
  /\ currentAd = << >>
  /\ ~vastTrackerCS
  /\ canplayPending
  /\ resumePending # << >>
  /\ ~adListening

\* C31: whenever a clock sample makes the reconciler enter an ad break, the
\* skip button is disabled when the overlay is shown, in every break of a
\* session, also in a break entered after a break in which the button had
\* become enabled.
C31_SkipDisabledOnEntry ==
  \A t \in SampleTimes(adBreaks) :
    LET r == update(State, t)
    IN (~isInAdBreak /\ r.isInAdBreak) =>
         /\ r.fx.show = 1
         /\ r.overlayActive
         /\ r.skipButton.disabled

\* C32: a metadata resolution fires the impression exactly once when it
\* yields metadata and never when it yields null; no clock sample, skip or
\* click fires an impression.
C32_ImpressionPerResolution ==
  /\ \A e \in DOMAIN pending, vast \in VastResponses :
       LET r == resolveMetadata(State, e, vast)
       IN /\ r.fx.impression = IF vast.ok THEN 1 ELSE 0
          /\ ~vast.ok => r.vastTracker = vastTracker
  /\ \A t \in SampleTimes(adBreaks) : update(State, t).fx.impression = 0
  /\ \A hasPlayer \in BOOLEAN :
       /\ skipCurrentAd(State, hasPlayer).fx.impression = 0
       /\ clickCurrentAd(State).fx.impression = 0

\* a resolution of the active break is outstanding: with a linear creative it
\* fires one impression, with a failed request none
C32_Witness ==
  /\ isInAdBreak
  /\ \E e \in DOMAIN pending :
       /\ Deref(State, currentAdBreak).breakId = e.breakId
       /\ resolveMetadata(State, e, VastShort).fx.impression = 1
       /\ resolveMetadata(State, e, VastFailure).fx.impression = 0

\* C33: in the idle state every clock sample inside the shifted window of a
\* break enters that break, whether or not the break was entered before: the
\* overlay is shown and a new metadata resolution is started.
C33_NoRetriggerGuard ==
  \A t \in SampleTimes(adBreaks), p \in 1..Len(adBreaks) :
    LET r == update(State, t)
    IN (/\ ~isInAdBreak
        /\ InWindow(adBreaks, p, t)
        /\ \A q \in 1..(p - 1) : ~InWindow(adBreaks, q, t))
       => /\ r.isInAdBreak
          /\ r.currentAdBreak = ListRef(p)
          /\ r.fx.show = 1
          /\ r.fx.initialize = 1
          /\ PendingCount(r.pending) = PendingCount(pending) + 1

\* the pre-roll was entered, resolved to 15 s with a click-through, and has
\* exited; a sample at its start enters it again
C33_Witness ==
  /\ ~isInAdBreak
  /\ currentAdBreak = NullRef
  /\ Len(adBreaks) > 0
  /\ adBreaks[1].duration = 150
  /\ adBreaks[1].clickThrough = "adv"
  /\ pending = << >>
  /\ LET r == update(State, adBreaks[1].timeInSeconds)
     IN r.currentAdBreak = ListRef(1) /\ r.fx.show = 1 /\ r.fx.initialize = 1

\* C34: after every processed clock sample that leaves the reconciler in a
\* break, currentAdBreak is the break whose shifted window contains the
\* sample, also when the sample before lay in the window of another break.
C34_CurrentIsMatchedBreak ==
  \A t \in SampleTimes(adBreaks) :
    LET r == update(State, t)
    IN r.isInAdBreak =>
         \E p \in 1..Len(r.adBreaks) :
           /\ InWindow(r.adBreaks, p, t)
           /\ \A q \in 1..(p - 1) : ~InWindow(r.adBreaks, q, t)
           /\ r.currentAdBreak = ListRef(p)

\* C35: the tracking session belongs to the active break: in the idle state
\* there is no session, and in a break an existing session is the one created
\* by resolving that break.
C35_SessionOfActiveBreak ==
  /\ ~isInAdBreak => vastTracker = << >>
  /\ (isInAdBreak /\ currentAdBreak # NullRef /\ vastTracker # << >>) =>
       vastTracker[1].breakId = Deref(State, currentAdBreak).breakId

\* C36: when loads overlap, the list installed from the answer to the most
\* recent load stays in use: no later step takes the list away from that load
\* except a new load.
C36_LatestScheduleWins ==
  [][(latest.installed /\ loadsInFlight' <= loadsInFlight) => latest'.installed]_vars

\* C37: in the content-relative program, while an ad document is being
\* fetched or an ad session exists no clock sample triggers a break, and the
\* answer to an ad-document fetch never replaces an existing ad session.
C37_OneSessionAtATime ==
  /\ (pendingVast # NoPending \/ currentAd # << >>) =>
       \A t \in SampleTimesCS(adBreaksCS) :
         handleContentTimeUpdate(StateCS, t).fx.triggered = << >>
  /\ currentAd # << >> =>
       \A e \in DOMAIN pendingVast, vast \in VastAnswers :
         vastAnswered(StateCS, e, vast).currentAd = currentAd

\* the elapsed times of the ad tried against onAdTimeUpdate
AdElapsedTimes == {0, DEFAULT_SKIP_OFFSET, FALLBACK_AD_DURATION, DEFAULT_AD_DURATION}

\* C38: in the content-relative program every operation that ends or replaces
\* an ad session fires exactly one terminal tracking event for it, completion
\* (ad ended or duration reached) or skip (user skip), never both and never
\* twice; an operation that keeps the session, or finds none, fires neither.
C38_OneTerminalEvent ==
  LET Terminal(r) == r.fx.complete + r.fx.skip
      Ends(r) == \/ r.currentAd = << >>
                 \/ [r.currentAd[1] EXCEPT !.fresh = TRUE]
                      # [currentAd[1] EXCEPT !.fresh = TRUE]
      Closed(r) == r.currentAd = << >> /\ ~r.vastTracker
      Exact(r) == /\ Ends(r) <=> Terminal(r) = 1
                  /\ ~Ends(r) => Terminal(r) = 0
  IN IF currentAd = << >>
     THEN /\ Terminal(onAdEnded(StateCS)) = 0
          /\ Terminal(skipAdCS(StateCS)) = 0
          /\ \A el \in AdElapsedTimes : Terminal(onAdTimeUpdate(StateCS, el)) = 0
     ELSE /\ LET r == onAdEnded(StateCS)
             IN r.fx.complete = 1 /\ r.fx.skip = 0 /\ Closed(r)
          /\ playerCS => LET r == skipAdCS(StateCS)
                         IN r.fx.skip = 1 /\ r.fx.complete = 0 /\ Closed(r)
          /\ playerCS =>
               \A el \in AdElapsedTimes :
                 LET r == onAdTimeUpdate(StateCS, el)
                 IN IF el >= currentAd[1].duration
                    THEN r.fx.complete = 1 /\ r.fx.skip = 0 /\ Closed(r)
                    ELSE Terminal(r) = 0 /\ ~Ends(r)
          /\ \A e \in DOMAIN pendingVast, vast \in VastAnswers :
               Exact(vastAnswered(StateCS, e, vast))
          /\ \A t \in SampleTimesCS(adBreaksCS) :
               Exact(handleContentTimeUpdate(StateCS, t))
          /\ Exact(loadVideoAndVMAP(StateCS))
          /\ Exact(adCanPlay(StateCS))

\* C39: in the content-relative program handleContentTimeUpdate is registered
\* on the player at most once at any time.
C39_ListenerAtMostOnce == contentListeners <= 1

\* the breaks a content clock sample t triggers in the state s
TriggeredAt(s, t) ==
  LET r == handleContentTimeUpdate([s EXCEPT !.fx = NoFxCS], t)
  IN {r.fx.triggered[i] : i \in 1..Len(r.fx.triggered)}

\* the answer to an ad-document fetch created no session and left the content
\* playback and its listener as they were
NothingStarted(r) ==
  /\ r.currentAd = currentAd
  /\ r.vastTracker = vastTrackerCS
  /\ r.fx.impression = 0
  /\ r.fx.show = 0
  /\ r.overlay = overlayCS
  /\ r.contentListeners = contentListeners
  /\ r.currentSource = currentSource
  /\ r.contentSource = contentSource

\* C40: in the content-relative program a failed ad-document fetch of a
\* triggered break creates no session, leaves content playback and listener
\* untouched and lets the next sample in the break's window trigger the break
\* again; an ad document without playable creative creates no session either
\* and the break, being the last one triggered, is triggered by no sample.
C40_FailedFetchRearms ==
  \A e \in DOMAIN pendingVast :
    LET b == e.breakInfo
        failed == vastAnswered(StateCS, e, VastRejected)
        empty == vastAnswered(StateCS, e, VastEmpty)
    IN /\ NothingStarted(failed)
       /\ NothingStarted(empty)
       /\ (e.fresh /\ ContentPlaying) =>
            \A t \in SampleTimesCS(adBreaksCS), p \in 1..Len(adBreaksCS) :
              (/\ adBreaksCS[p] = b
               /\ InTriggerWindow(b, t)
               /\ \A q \in 1..(p - 1) : ~InTriggerWindow(adBreaksCS[q], t))
              => b \in TriggeredAt(failed, t)
       /\ (e.fresh /\ lastTriggeredBreakIndex = b.index) =>
            \A t \in SampleTimesCS(adBreaksCS) : b \notin TriggeredAt(empty, t)

====
